---- MODULE Spec2Model ----
(***************************************************************************)
(* Fuzzy inference engine of lab3 (fuzzy_inference_engine.py) over the     *)
(* membership functions, variables and rules of fuzzy_json_parser.py.      *)
(*                                                                         *)
(* Python floats are modelled as exact rationals <<n, d>> with d > 0 in    *)
(* lowest terms; numpy arrays as sequences of rationals.                   *)
(***************************************************************************)
EXTENDS Integers, Sequences, FiniteSets, TLC

(***************************************************************************)
(* Rational arithmetic (float +, -, *, /, abs, min, max, comparisons)      *)
(***************************************************************************)
RECURSIVE GCD(_, _)
GCD(a, b) == IF b = 0 THEN a ELSE GCD(b, a % b)

IAbs(n) == IF n < 0 THEN -n ELSE n

IMax(a, b) == IF a >= b THEN a ELSE b

Norm(n, d) ==
    LET g == GCD(IAbs(n), IAbs(d))
        s == IF d < 0 THEN -1 ELSE 1
    IN  <<s * (n \div g), s * (d \div g)>>

R(n) == <<n, 1>>

Zero == R(0)

One == R(1)

\* sums, differences and comparisons go through the least common
\* denominator, products cancel crosswise first: the integers stay small
RAdd(p, q) ==
    LET g == GCD(p[2], q[2])
    IN  Norm(p[1] * (q[2] \div g) + q[1] * (p[2] \div g), (p[2] \div g) * q[2])

RSub(p, q) ==
    LET g == GCD(p[2], q[2])
    IN  Norm(p[1] * (q[2] \div g) - q[1] * (p[2] \div g), (p[2] \div g) * q[2])

RMul(p, q) ==
    LET g == IMax(GCD(IAbs(p[1]), q[2]), 1)
        h == IMax(GCD(IAbs(q[1]), p[2]), 1)
    IN  Norm((p[1] \div g) * (q[1] \div h), (p[2] \div h) * (q[2] \div g))

RDiv(p, q) == RMul(p, IF q[1] < 0 THEN <<-q[2], -q[1]>> ELSE <<q[2], q[1]>>)

RAbs(p) == <<IAbs(p[1]), p[2]>>

RLe(p, q) ==
    LET g == GCD(p[2], q[2])
    IN  p[1] * (q[2] \div g) <= q[1] * (p[2] \div g)

RLt(p, q) ==
    LET g == GCD(p[2], q[2])
    IN  p[1] * (q[2] \div g) < q[1] * (p[2] \div g)

RMin(p, q) == IF RLe(p, q) THEN p ELSE q

RMax(p, q) == IF RLe(q, p) THEN p ELSE q

\* np.linspace(lo, hi, n): n evenly spaced points, as a 1-indexed sequence
Linspace(lo, hi, n) ==
    [i \in 1..n |->
        IF n = 1 THEN lo
        ELSE RAdd(lo, RDiv(RMul(R(i - 1), RSub(hi, lo)), R(n - 1)))]

\* np.zeros(n)
Zeros(n) == [i \in 1..n |-> Zero]

\* max / min / sum of s[lo..hi], halving the range
RECURSIVE SeqMaxIn(_, _, _)
SeqMaxIn(s, lo, hi) ==
    IF lo = hi THEN s[lo]
    ELSE LET m == (lo + hi) \div 2
         IN  RMax(SeqMaxIn(s, lo, m), SeqMaxIn(s, m + 1, hi))

\* np.max / max of a non-empty array
SeqMax(s) == SeqMaxIn(s, 1, Len(s))

RECURSIVE SeqMinIn(_, _, _)
SeqMinIn(s, lo, hi) ==
    IF lo = hi THEN s[lo]
    ELSE LET m == (lo + hi) \div 2
         IN  RMin(SeqMinIn(s, lo, m), SeqMinIn(s, m + 1, hi))

\* min of a non-empty list
SeqMin(s) == SeqMinIn(s, 1, Len(s))

RECURSIVE SeqSumIn(_, _, _)
SeqSumIn(s, lo, hi) ==
    IF lo > hi THEN Zero
    ELSE IF lo = hi THEN s[lo]
    ELSE LET m == (lo + hi) \div 2
         IN  RAdd(SeqSumIn(s, lo, m), SeqSumIn(s, m + 1, hi))

\* sum / np.sum of a list
SeqSum(s) == SeqSumIn(s, 1, Len(s))

(***************************************************************************)
(* Membership functions (fuzzy_json_parser.py)                             *)
(***************************************************************************)
Tri(a, b, c) == [type |-> "tri", a |-> R(a), b |-> R(b), c |-> R(c)]

Trap(a, b, c, d) ==
    [type |-> "trap", a |-> R(a), b |-> R(b), c |-> R(c), d |-> R(d)]

\* __call__ with the falling branch tested as b < x <= c, so that the peak
\* x = b falls through to the final return 0.0
TriangularMF_OpenPeak(mf, x) ==
    IF RLe(x, mf.a) \/ RLe(mf.c, x) THEN Zero
    ELSE IF RLt(mf.a, x) /\ RLt(x, mf.b)
         THEN IF mf.b # mf.a
              THEN RDiv(RSub(x, mf.a), RSub(mf.b, mf.a)) ELSE Zero
    ELSE IF RLt(mf.b, x) /\ RLe(x, mf.c)
         THEN IF mf.c # mf.b
              THEN RDiv(RSub(mf.c, x), RSub(mf.c, mf.b)) ELSE Zero
    ELSE Zero

\* __call__ with the rising ramp left undivided: x - a
TriangularMF_RampUndivided(mf, x) ==
    IF RLe(x, mf.a) \/ RLe(mf.c, x) THEN Zero
    ELSE IF RLt(mf.a, x) /\ RLt(x, mf.b)
         THEN IF mf.b # mf.a THEN RSub(x, mf.a) ELSE Zero
    ELSE IF RLe(mf.b, x) /\ RLe(x, mf.c)
         THEN IF mf.c # mf.b
              THEN RDiv(RSub(mf.c, x), RSub(mf.c, mf.b)) ELSE Zero
    ELSE Zero

\* TriangularMF.__call__
TriangularMF(mf, x) ==
    IF RLe(x, mf.a) \/ RLe(mf.c, x) THEN Zero
    ELSE IF RLt(mf.a, x) /\ RLt(x, mf.b)
         THEN IF mf.b # mf.a
              THEN RDiv(RSub(x, mf.a), RSub(mf.b, mf.a)) ELSE Zero
    ELSE IF RLe(mf.b, x) /\ RLe(x, mf.c)
         THEN IF mf.c # mf.b
              THEN RDiv(RSub(mf.c, x), RSub(mf.c, mf.b)) ELSE Zero
    ELSE Zero

\* __call__ with the plateau tested as b < x < c, so that its end points
\* fall through to the final return 0.0
TrapezoidalMF_OpenPlateau(mf, x) ==
    IF RLe(x, mf.a) \/ RLe(mf.d, x) THEN Zero
    ELSE IF RLt(mf.a, x) /\ RLt(x, mf.b)
         THEN IF mf.b # mf.a
              THEN RDiv(RSub(x, mf.a), RSub(mf.b, mf.a)) ELSE Zero
    ELSE IF RLt(mf.b, x) /\ RLt(x, mf.c) THEN One
    ELSE IF RLt(mf.c, x) /\ RLt(x, mf.d)
         THEN IF mf.d # mf.c
              THEN RDiv(RSub(mf.d, x), RSub(mf.d, mf.c)) ELSE Zero
    ELSE Zero

\* TrapezoidalMF.__call__
TrapezoidalMF(mf, x) ==
    IF RLe(x, mf.a) \/ RLe(mf.d, x) THEN Zero
    ELSE IF RLt(mf.a, x) /\ RLt(x, mf.b)
         THEN IF mf.b # mf.a
              THEN RDiv(RSub(x, mf.a), RSub(mf.b, mf.a)) ELSE Zero
    ELSE IF RLe(mf.b, x) /\ RLe(x, mf.c) THEN One
    ELSE IF RLt(mf.c, x) /\ RLt(x, mf.d)
         THEN IF mf.d # mf.c
              THEN RDiv(RSub(mf.d, x), RSub(mf.d, mf.c)) ELSE Zero
    ELSE Zero

\* FuzzySet.membership: dispatch to the membership function's __call__
Membership(mf, x) ==
    IF mf.type = "tri" THEN TriangularMF(mf, x) ELSE TrapezoidalMF(mf, x)

(***************************************************************************)
(* Bounds of the model                                                     *)
(***************************************************************************)
\* longest rule list an engine is built with
MaxRules == 2

\* `resolution` argument of the inference calls (points of the output grid)
Resolution == 5

\* longest value list handed to _aggregate
MaxValues == 3

\* largest parameter of the membership functions evaluated on their own
MaxParam == 3

\* longest curve handed to a defuzzifier on its own
MaxPoints == 4

(***************************************************************************)
(* Program constants                                                       *)
(***************************************************************************)
\* lower clamp of condition_resolution in __init__
MinConditionResolution == 51

ImplicationType == {"mamdani", "larsen"}

AggregationType == {"max", "sum", "probor"}

CompositionType == {"max_min", "max_prod"}

(***************************************************************************)
(* The loaded model: variable table and rules as the JSON parser builds    *)
(* them (FuzzyVariable: min_val, max_val, terms; FuzzyRule: conditions in  *)
(* dict order, result_var, result_term)                                    *)
(***************************************************************************)
FuzzyVariable(lo, hi, terms) ==
    [min_val |-> R(lo), max_val |-> R(hi), terms |-> terms]

FuzzyRule(conditions, result_var, result_term) ==
    [conditions |-> conditions, result_var |-> result_var,
     result_term |-> result_term]

ModelVariables ==
    [n \in {"amount", "level", "power"} |->
        CASE n = "amount" ->
                FuzzyVariable(0, 6,
                    [t \in {"low", "mid", "high"} |->
                        CASE t = "low" -> Tri(0, 0, 3)
                          [] t = "mid" -> Tri(0, 3, 6)
                          [] t = "high" -> Tri(3, 6, 6)])
          [] n = "level" ->
                FuzzyVariable(0, 10,
                    [t \in {"full"} |-> Tri(0, 5, 10)])
          [] n = "power" ->
                FuzzyVariable(0, 100,
                    [t \in {"full", "off"} |->
                        CASE t = "full" -> Tri(0, 50, 100)
                          [] t = "off" -> Trap(0, 0, 10, 50)])]

\* the rules of the loaded model, in declaration order; "ghost" is no
\* variable and "nope" no term of the table
ModelRules ==
    << FuzzyRule(<< <<"amount", "high">> >>, "power", "full"),
       FuzzyRule(<< <<"amount", "mid">> >>, "power", "off"),
       FuzzyRule(<< <<"amount", "high">>, <<"level", "full">> >>, "power", "full"),
       FuzzyRule(<< <<"amount", "nope">>, <<"level", "full">> >>, "power", "full"),
       FuzzyRule(<< <<"amount", "mid">>, <<"ghost", "high">> >>, "power", "off"),
       FuzzyRule(<< <<"amount", "high">> >>, "power", "nope"),
       FuzzyRule(<< <<"amount", "mid">> >>, "level", "full") >>

\* crisp input maps supplied by the caller
ModelInputs ==
    { [v \in {"amount"} |-> R(6)],
      [v \in {"amount"} |-> <<9, 2>>],
      [v \in {"amount", "level"} |-> IF v = "amount" THEN <<9, 2>> ELSE R(5)],
      [v \in {"amount", "level"} |-> IF v = "amount" THEN <<9, 2>> ELSE R(2)],
      [v \in {"amount", "ghost"} |-> IF v = "amount" THEN R(3) ELSE R(1)],
      [v \in {"level"} |-> R(5)] }

\* output_var arguments: a variable of the table and one that is not
OutputVars == {"power", "ghost"}

\* condition_resolution arguments of the constructor
RequestedResolutions == {0, 53}

\* the sub-lists of s (order kept) with at most n elements
RECURSIVE SubSeqs(_, _)
SubSeqs(s, n) ==
    IF n = 0 \/ s = <<>> THEN {<<>>}
    ELSE SubSeqs(Tail(s), n)
         \cup {<<Head(s)>> \o t : t \in SubSeqs(Tail(s), n - 1)}

VARIABLES
    rules,                 \* self.rules
    variables,             \* self.variables
    condition_resolution,  \* self.condition_resolution
    pc,                    \* "idle", the running method, "returned", "raised",
                           \* "defuzzified"
    call,                  \* arguments of the running call
    idx,                   \* position of the `for rule in self.rules` loop
    output_mf,             \* local output_mf of the inference methods
    x_range,               \* local x_range of the inference methods
    truth_levels,          \* result of get_rule_truth_levels
    agg_result,            \* result of _aggregate
    ret,                   \* value the finished call returns
    frames,                \* the call frames of the threads sharing the engine
    variable,              \* local `variable` of _parse_variable
    facts,                 \* self.facts of the backward-chaining engine
    proven_goals,          \* self.proven_goals of the backward-chaining engine
    stack                  \* the nested calls of prove and _evaluate_conditions

vars == <<rules, variables, condition_resolution, pc, call, idx, output_mf,
          x_range, truth_levels, agg_result, ret, frames, variable, facts,
          proven_goals, stack>>

(***************************************************************************)
(* FuzzyInferenceEngine                                                    *)
(***************************************************************************)
\* FuzzyInferenceEngine._implication
Implication(a, b, impl_type) ==
    IF impl_type = "mamdani" THEN RMin(a, b) ELSE RMul(a, b)

\* the fold with the product term taken from the new value alone:
\* result = result + v - v * v
RECURSIVE ProborFold_ValueSquared(_, _, _)
ProborFold_ValueSquared(result, values, k) ==
    IF k > Len(values) THEN result
    ELSE ProborFold_ValueSquared(
             RSub(RAdd(result, values[k]), RMul(values[k], values[k])),
             values, k + 1)

\* the PROBOR fold of _aggregate: result = result + v - result * v
RECURSIVE ProborFold(_, _, _)
ProborFold(result, values, k) ==
    IF k > Len(values) THEN result
    ELSE ProborFold(RSub(RAdd(result, values[k]), RMul(result, values[k])),
                    values, k + 1)

\* _aggregate with the cap of SUM left out: return sum(values)
Aggregate_SumUncapped(values, agg_type) ==
    IF values = <<>> THEN Zero
    ELSE IF agg_type = "max" THEN SeqMax(values)
    ELSE IF agg_type = "sum" THEN SeqSum(values)
    ELSE RMin(One, ProborFold(values[1], values, 2))

\* FuzzyInferenceEngine._aggregate
Aggregate(values, agg_type) ==
    IF values = <<>> THEN Zero
    ELSE IF agg_type = "max" THEN SeqMax(values)
    ELSE IF agg_type = "sum" THEN RMin(One, SeqSum(values))
    ELSE RMin(One, ProborFold(values[1], values, 2))

\* _build_input_membership dividing the span by condition_resolution / 2
\* in floating point instead of by condition_resolution // 2
BuildInputMembership_TrueDivision(var, value, res) ==
    LET xs == Linspace(var.min_val, var.max_val, res)
        d == RSub(var.max_val, var.min_val)
        span == IF d = Zero THEN One ELSE d
        half_width == RDiv(span, RMax(Norm(res, 2), One))
    IN  [i \in 1..res |->
            RMax(RSub(One, RDiv(RAbs(RSub(xs[i], value)), half_width)), Zero)]

\* FuzzyInferenceEngine._build_input_membership: the membership array on a
\* grid of res = self.condition_resolution points
BuildInputMembership(var, value, res) ==
    LET xs == Linspace(var.min_val, var.max_val, res)
        d == RSub(var.max_val, var.min_val)
        span == IF d = Zero THEN One ELSE d
        half_width == RDiv(span, R(IMax(res \div 2, 1)))
    IN  [i \in 1..res |->
            RMax(RSub(One, RDiv(RAbs(RSub(xs[i], value)), half_width)), Zero)]

\* truth of one condition whose variable and term are known:
\* max over the input grid of min(A'(x), mu_term(x))
ConditionTruth(var, term, value, res) ==
    LET xs == Linspace(var.min_val, var.max_val, res)
        input_mf == BuildInputMembership(var, value, res)
        intersection == [i \in 1..res |->
                            RMin(input_mf[i], Membership(term, xs[i]))]
    IN  SeqMax(intersection)

\* the condition resolutions an engine of the model can hold
EngineResolutions ==
    {IMax(MinConditionResolution, requested) : requested \in RequestedResolutions}

\* the crisp values the input maps give variable var_name
InputValues(var_name) ==
    {inputs[var_name] : inputs \in {m \in ModelInputs : var_name \in DOMAIN m}}

\* ConditionTruth of every condition the loaded model can put to an engine,
\* as <<resolution, variable, term, value, truth>>, evaluated once
ConditionTruths ==
    UNION { UNION { { <<res, var_name, term_name, value,
                        ConditionTruth(ModelVariables[var_name],
                            ModelVariables[var_name].terms[term_name],
                            value, res)>> :
                      value \in InputValues(var_name), res \in EngineResolutions }
                    : term_name \in DOMAIN ModelVariables[var_name].terms }
            : var_name \in DOMAIN ModelVariables }

\* the truth level appended for the known condition (var_name, term_name):
\* read from ConditionTruths when the engine holds the loaded model,
\* computed otherwise
TruthOfCondition(var_name, term_name, value) ==
    LET known == {e \in ConditionTruths :
                     /\ e[1] = condition_resolution /\ e[2] = var_name
                     /\ e[3] = term_name /\ e[4] = value}
    IN  IF variables = ModelVariables /\ known # {}
        THEN (CHOOSE e \in known : TRUE)[5]
        ELSE ConditionTruth(variables[var_name],
                            variables[var_name].terms[term_name],
                            value, condition_resolution)

\* the loop with an unknown term skipped and nothing appended for it
RECURSIVE EvaluateFrom_TermSkipped(_, _, _, _)
EvaluateFrom_TermSkipped(rule, inputs, k, levels) ==
    IF k > Len(rule.conditions)
    THEN IF levels # <<>> THEN SeqMin(levels) ELSE Zero
    ELSE LET var_name == rule.conditions[k][1]
             term_name == rule.conditions[k][2]
         IN  IF var_name \notin DOMAIN inputs THEN Zero
             ELSE IF var_name \notin DOMAIN variables THEN Zero
             ELSE IF term_name \notin DOMAIN variables[var_name].terms
                  THEN EvaluateFrom_TermSkipped(rule, inputs, k + 1, levels)
             ELSE EvaluateFrom_TermSkipped(rule, inputs, k + 1,
                      Append(levels,
                             TruthOfCondition(var_name, term_name,
                                              inputs[var_name])))

\* the loop with an unknown variable skipped (continue) instead of return 0.0
RECURSIVE EvaluateFrom_VarSkipped(_, _, _, _)
EvaluateFrom_VarSkipped(rule, inputs, k, levels) ==
    IF k > Len(rule.conditions)
    THEN IF levels # <<>> THEN SeqMin(levels) ELSE Zero
    ELSE LET var_name == rule.conditions[k][1]
             term_name == rule.conditions[k][2]
         IN  IF var_name \notin DOMAIN inputs THEN Zero
             ELSE IF var_name \notin DOMAIN variables
                  THEN EvaluateFrom_VarSkipped(rule, inputs, k + 1, levels)
             ELSE IF term_name \notin DOMAIN variables[var_name].terms
                  THEN EvaluateFrom_VarSkipped(rule, inputs, k + 1,
                                               Append(levels, Zero))
             ELSE EvaluateFrom_VarSkipped(rule, inputs, k + 1,
                      Append(levels,
                             TruthOfCondition(var_name, term_name,
                                              inputs[var_name])))

\* the loop of _evaluate_rule_conditions from condition k on, levels being
\* the truth_levels list built so far
RECURSIVE EvaluateFrom(_, _, _, _)
EvaluateFrom(rule, inputs, k, levels) ==
    IF k > Len(rule.conditions)
    THEN IF levels # <<>> THEN SeqMin(levels) ELSE Zero
    ELSE LET var_name == rule.conditions[k][1]
             term_name == rule.conditions[k][2]
         IN  IF var_name \notin DOMAIN inputs THEN Zero
             ELSE IF var_name \notin DOMAIN variables THEN Zero
             ELSE IF term_name \notin DOMAIN variables[var_name].terms
                  THEN EvaluateFrom(rule, inputs, k + 1, Append(levels, Zero))
             ELSE EvaluateFrom(rule, inputs, k + 1,
                      Append(levels,
                             TruthOfCondition(var_name, term_name,
                                              inputs[var_name])))

\* _evaluate_rule_conditions looking at the first condition only
EvaluateRuleConditions_FirstOnly(rule, inputs) ==
    EvaluateFrom([rule EXCEPT !.conditions = <<rule.conditions[1]>>],
                 inputs, 1, <<>>)

\* FuzzyInferenceEngine._evaluate_rule_conditions
EvaluateRuleConditions(rule, inputs) == EvaluateFrom(rule, inputs, 1, <<>>)

\* body of the loop of get_rule_truth_levels, from rule k on
RECURSIVE RuleTruthLevelsFrom(_, _, _, _)
RuleTruthLevelsFrom(rs, inputs, output_var, k) ==
    IF k > Len(rs) THEN <<>>
    ELSE IF output_var # "" /\ rs[k].result_var # output_var
         THEN RuleTruthLevelsFrom(rs, inputs, output_var, k + 1)
    ELSE << <<rs[k], EvaluateRuleConditions(rs[k], inputs)>> >>
         \o RuleTruthLevelsFrom(rs, inputs, output_var, k + 1)

\* get_rule_truth_levels putting each pair in front of the list
\* (truth_levels.insert(0, ...)): the pairs come out in reverse order
GetRuleTruthLevels_Prepending(rs, inputs, output_var) ==
    LET pairs == RuleTruthLevelsFrom(rs, inputs, output_var, 1)
    IN  [k \in 1..Len(pairs) |-> pairs[Len(pairs) + 1 - k]]

\* FuzzyInferenceEngine.get_rule_truth_levels ("" is the absent output_var)
GetRuleTruthLevels(rs, inputs, output_var) ==
    RuleTruthLevelsFrom(rs, inputs, output_var, 1)

\* term_membership = [result_term_mf.membership(x) for x in x_range]
TermMembership(term, xs) == [i \in 1..Len(xs) |-> Membership(term, xs[i])]

\* the aggregation step with SUM keeping only the latest rule output
AccumulateTruthLevel_SumOverwrites(out, rule_output, agg_type) ==
    [i \in 1..Len(out) |->
        IF agg_type = "max" THEN RMax(out[i], rule_output[i])
        ELSE IF agg_type = "sum" THEN RMin(One, rule_output[i])
        ELSE RMin(One, RSub(RAdd(out[i], rule_output[i]),
                            RMul(out[i], rule_output[i])))]

\* aggregation step of inference_truth_level
AccumulateTruthLevel(out, rule_output, agg_type) ==
    [i \in 1..Len(out) |->
        IF agg_type = "max" THEN RMax(out[i], rule_output[i])
        ELSE IF agg_type = "sum"
             THEN RMin(One, RAdd(out[i], rule_output[i]))
        ELSE RMin(One, RSub(RAdd(out[i], rule_output[i]),
                            RMul(out[i], rule_output[i])))]

\* aggregation step of inference_composition
AccumulateComposition(out, rule_output, agg_type) ==
    [i \in 1..Len(out) |->
        IF agg_type = "max" THEN RMax(out[i], rule_output[i])
        ELSE IF agg_type = "sum"
             THEN RMin(One, RAdd(out[i], rule_output[i]))
        ELSE RMin(One, RSub(RAdd(out[i], rule_output[i]),
                            RMul(out[i], rule_output[i])))]

\* rule_output of inference_truth_level for truth level alpha
TruthLevelRuleOutput(alpha, term_membership, impl_type) ==
    [i \in 1..Len(term_membership) |->
        Implication(alpha, term_membership[i], impl_type)]

\* rule_output with the MAX_PROD branch of a Mamdani relation multiplying
\* the relation by term_membership instead of truth_level by term_membership
CompositionRuleOutput_RelationTimesTerm(alpha, term_membership, comp_type, impl_type) ==
    LET clipped == [i \in 1..Len(term_membership) |->
                       RMin(alpha, term_membership[i])]
        scaled == [i \in 1..Len(term_membership) |->
                      RMul(alpha, term_membership[i])]
        fuzzy_relation == IF impl_type = "mamdani" THEN clipped
                          ELSE IF impl_type = "larsen" THEN scaled
                          ELSE clipped
    IN  IF comp_type = "max_min"
        THEN IF impl_type = "mamdani" THEN fuzzy_relation ELSE clipped
        ELSE IF comp_type = "max_prod"
        THEN IF impl_type = "larsen" THEN fuzzy_relation
             ELSE [i \in 1..Len(term_membership) |->
                      RMul(fuzzy_relation[i], term_membership[i])]
        ELSE fuzzy_relation

\* the per-rule output taken to be the fuzzy relation of step 1, which
\* impl_type decides
CompositionRuleOutput_ByImplication(alpha, term_membership, comp_type, impl_type) ==
    IF impl_type = "larsen"
    THEN [i \in 1..Len(term_membership) |-> RMul(alpha, term_membership[i])]
    ELSE [i \in 1..Len(term_membership) |-> RMin(alpha, term_membership[i])]

\* rule_output of inference_composition for truth level alpha
CompositionRuleOutput(alpha, term_membership, comp_type, impl_type) ==
    LET clipped == [i \in 1..Len(term_membership) |->
                       RMin(alpha, term_membership[i])]
        scaled == [i \in 1..Len(term_membership) |->
                      RMul(alpha, term_membership[i])]
        fuzzy_relation == IF impl_type = "mamdani" THEN clipped
                          ELSE IF impl_type = "larsen" THEN scaled
                          ELSE clipped
    IN  IF comp_type = "max_min"
        THEN IF impl_type = "mamdani" THEN fuzzy_relation ELSE clipped
        ELSE IF comp_type = "max_prod"
        THEN IF impl_type = "larsen" THEN fuzzy_relation ELSE scaled
        ELSE fuzzy_relation

\* the pass without the `rule.result_var != output_var` filter
TruthLevelStep_NoFilter(rule, inputs, output_var, impl_type, agg_type, out, xs) ==
    LET truth_level == EvaluateRuleConditions(rule, inputs)
    IN  IF truth_level = Zero THEN out
        ELSE IF rule.result_term \notin DOMAIN variables[output_var].terms
             THEN out
        ELSE AccumulateTruthLevel(
                 out,
                 TruthLevelRuleOutput(
                     truth_level,
                     TermMembership(
                         variables[output_var].terms[rule.result_term], xs),
                     impl_type),
                 agg_type)

\* one pass of the rule loop of inference_truth_level: the new output_mf
TruthLevelStep(rule, inputs, output_var, impl_type, agg_type, out, xs) ==
    IF rule.result_var # output_var THEN out
    ELSE LET truth_level == EvaluateRuleConditions(rule, inputs)
         IN  IF truth_level = Zero THEN out
             ELSE IF rule.result_term \notin DOMAIN variables[output_var].terms
                  THEN out
             ELSE AccumulateTruthLevel(
                      out,
                      TruthLevelRuleOutput(
                          truth_level,
                          TermMembership(
                              variables[output_var].terms[rule.result_term], xs),
                          impl_type),
                      agg_type)

\* one pass of the rule loop of inference_composition: the new output_mf
CompositionStep(rule, inputs, output_var, comp_type, impl_type, agg_type, out, xs) ==
    IF rule.result_var # output_var THEN out
    ELSE LET truth_level == EvaluateRuleConditions(rule, inputs)
         IN  IF truth_level = Zero THEN out
             ELSE IF rule.result_term \notin DOMAIN variables[output_var].terms
                  THEN out
             ELSE AccumulateComposition(
                      out,
                      CompositionRuleOutput(
                          truth_level,
                          TermMembership(
                              variables[output_var].terms[rule.result_term], xs),
                          comp_type, impl_type),
                      agg_type)

\* the array f[lo..hi] as an explicit tuple
RECURSIVE ArrIn(_, _, _)
ArrIn(f, lo, hi) ==
    IF lo > hi THEN <<>>
    ELSE IF lo = hi THEN <<f[lo]>>
    ELSE LET m == (lo + hi) \div 2
         IN  ArrIn(f, lo, m) \o ArrIn(f, m + 1, hi)

Arr(f) == ArrIn(f, 1, Len(f))

RECURSIVE TruthLevelLoop(_, _, _, _, _, _, _, _)
TruthLevelLoop(rs, inputs, output_var, impl_type, agg_type, k, out, xs) ==
    IF k > Len(rs) THEN out
    ELSE TruthLevelLoop(rs, inputs, output_var, impl_type, agg_type, k + 1,
             Arr(TruthLevelStep(rs[k], inputs, output_var, impl_type,
                                agg_type, out, xs)),
             xs)

RECURSIVE CompositionLoop(_, _, _, _, _, _, _, _, _)
CompositionLoop(rs, inputs, output_var, comp_type, impl_type, agg_type, k, out, xs) ==
    IF k > Len(rs) THEN out
    ELSE CompositionLoop(rs, inputs, output_var, comp_type, impl_type,
             agg_type, k + 1,
             Arr(CompositionStep(rs[k], inputs, output_var, comp_type,
                                 impl_type, agg_type, out, xs)),
             xs)

\* x_range = np.linspace(output_variable.min_val, output_variable.max_val, n)
OutputGrid(output_var, n) ==
    Linspace(variables[output_var].min_val, variables[output_var].max_val, n)

\* FuzzyInferenceEngine.inference_truth_level on the rule list rs
InferenceTruthLevel(rs, inputs, output_var, impl_type, agg_type, n) ==
    IF output_var \notin DOMAIN variables
    THEN [raised |-> "ValueError", membership |-> <<>>, x_range |-> <<>>]
    ELSE [raised |-> "none",
          membership |-> TruthLevelLoop(rs, inputs, output_var, impl_type,
                             agg_type, 1, Zeros(n), OutputGrid(output_var, n)),
          x_range |-> OutputGrid(output_var, n)]

\* FuzzyInferenceEngine.inference_composition on the rule list rs
InferenceComposition(rs, inputs, output_var, comp_type, impl_type, agg_type, n) ==
    IF output_var \notin DOMAIN variables
    THEN [raised |-> "ValueError", membership |-> <<>>, x_range |-> <<>>]
    ELSE [raised |-> "none",
          membership |-> CompositionLoop(rs, inputs, output_var, comp_type,
                             impl_type, agg_type, 1, Zeros(n),
                             OutputGrid(output_var, n)),
          x_range |-> OutputGrid(output_var, n)]

\* defuzzify_centroid dividing the weighted sum by the number of points
DefuzzifyCentroid_DividedByLen(membership, xs) ==
    IF SeqSum(membership) = Zero
    THEN RDiv(SeqSum(xs), R(Len(xs)))
    ELSE RDiv(SeqSum([i \in 1..Len(xs) |-> RMul(xs[i], membership[i])]),
              R(Len(xs)))

\* FuzzyInferenceEngine.defuzzify_centroid
DefuzzifyCentroid(membership, xs) ==
    IF SeqSum(membership) = Zero
    THEN RDiv(SeqSum(xs), R(Len(xs)))
    ELSE RDiv(SeqSum([i \in 1..Len(xs) |-> RMul(xs[i], membership[i])]),
              SeqSum(membership))

\* np.mean of a non-empty array
Mean(xs) == RDiv(SeqSum(xs), R(Len(xs)))

\* np.cumsum: the running sums of the array
RECURSIVE CumSumFrom(_, _, _)
CumSumFrom(membership, k, acc) ==
    IF k > Len(membership) THEN <<>>
    ELSE <<RAdd(acc, membership[k])>>
         \o CumSumFrom(membership, k + 1, RAdd(acc, membership[k]))

CumSum(membership) == CumSumFrom(membership, 1, Zero)

\* the search with side='right': the first 0-based index whose element is
\* above v
RECURSIVE SearchSortedRightIn(_, _, _, _)
SearchSortedRightIn(a, v, lo, hi) ==
    IF lo >= hi THEN lo
    ELSE LET mid == lo + (hi - lo) \div 2
         IN  IF RLe(a[mid + 1], v) THEN SearchSortedRightIn(a, v, mid + 1, hi)
             ELSE SearchSortedRightIn(a, v, lo, mid)

SearchSorted_Right(a, v) == SearchSortedRightIn(a, v, 0, Len(a))

\* the binary search of np.searchsorted (side='left') over the 0-based
\* index range [lo, hi)
RECURSIVE SearchSortedIn(_, _, _, _)
SearchSortedIn(a, v, lo, hi) ==
    IF lo >= hi THEN lo
    ELSE LET mid == lo + (hi - lo) \div 2
         IN  IF RLt(a[mid + 1], v) THEN SearchSortedIn(a, v, mid + 1, hi)
             ELSE SearchSortedIn(a, v, lo, mid)

\* np.searchsorted(a, v): a 0-based index
SearchSorted(a, v) == SearchSortedIn(a, v, 0, Len(a))

\* defuzzify_bisector without the guard on total_area == 0
DefuzzifyBisector_NoZeroGuard(membership, xs) ==
    LET total_area == SeqSum(membership)
        cumulative == CumSum(membership)
        half_area == RDiv(total_area, R(2))
        found == SearchSorted(cumulative, half_area)
        at == IF found >= Len(xs) THEN Len(xs) - 1 ELSE found
    IN  xs[at + 1]

\* FuzzyInferenceEngine.defuzzify_bisector
DefuzzifyBisector(membership, xs) ==
    LET total_area == SeqSum(membership)
        cumulative == CumSum(membership)
        half_area == RDiv(total_area, R(2))
        found == SearchSorted(cumulative, half_area)
        at == IF found >= Len(xs) THEN Len(xs) - 1 ELSE found
    IN  IF total_area = Zero THEN Mean(xs) ELSE xs[at + 1]

\* x_range[max_indices]: the x values where membership equals max_val
RECURSIVE AtMaximum(_, _, _, _)
AtMaximum(membership, xs, max_val, k) ==
    IF k > Len(membership) THEN <<>>
    ELSE (IF membership[k] = max_val THEN <<xs[k]>> ELSE <<>>)
         \o AtMaximum(membership, xs, max_val, k + 1)

\* defuzzify_mom returning the x of the first maximum only
DefuzzifyMom_FirstMaximum(membership, xs) ==
    LET max_val == SeqMax(membership)
    IN  IF max_val = Zero THEN Mean(xs)
        ELSE AtMaximum(membership, xs, max_val, 1)[1]

\* FuzzyInferenceEngine.defuzzify_mom
DefuzzifyMom(membership, xs) ==
    LET max_val == SeqMax(membership)
    IN  IF max_val = Zero THEN Mean(xs)
        ELSE Mean(AtMaximum(membership, xs, max_val, 1))

(***************************************************************************)
(* The state machine: an engine is constructed once and then serves calls; *)
(* the inference methods advance rule by rule                              *)
(***************************************************************************)
\* no FuzzyVariable under construction
NoVariable == [min_val |-> Zero, max_val |-> Zero, terms |-> <<>>]

NoCall ==
    [fn |-> "none", inputs |-> <<>>, output_var |-> "", comp_type |-> "",
     impl_type |-> "", agg_type |-> "", values |-> <<>>]

\* value lists handed to _aggregate: any magnitude, not only [0, 1]
AggregateValues == {Zero, <<1, 2>>, One, <<3, 2>>}

RECURSIVE SeqsUpTo(_, _)
SeqsUpTo(S, n) ==
    IF n = 0 THEN {<<>>}
    ELSE SeqsUpTo(S, n - 1)
         \cup {Append(t, v) : t \in {u \in SeqsUpTo(S, n - 1) : Len(u) = n - 1},
                              v \in S}

\* __init__ storing the requested condition_resolution as it is
Construct_NoClamp(rs, vs, requested) ==
    /\ rules = rs
    /\ variables = vs
    /\ condition_resolution = requested

\* FuzzyInferenceEngine.__init__ with the requested condition_resolution
Construct(rs, vs, requested) ==
    /\ rules = rs
    /\ variables = vs
    /\ condition_resolution = IMax(MinConditionResolution, requested)

\* no variable being parsed and no backward-chaining engine
NothingElse ==
    /\ variable = NoVariable
    /\ facts = <<>>
    /\ proven_goals = {}
    /\ stack = <<>>

Init ==
    /\ \E rs \in SubSeqs(ModelRules, MaxRules) :
       \E requested \in RequestedResolutions :
            Construct(rs, ModelVariables, requested)
    /\ pc = "idle"
    /\ call = NoCall
    /\ idx = 0
    /\ output_mf = <<>>
    /\ x_range = <<>>
    /\ truth_levels = <<>>
    /\ agg_result = Zero
    /\ ret = Zero
    /\ frames = <<>>
    /\ NothingElse

engine == <<rules, variables, condition_resolution>>

\* the state of the other components, which the engine's calls leave alone
elsewhere == <<variable, facts, proven_goals, stack>>

rest == <<frames, elsewhere>>

\* get_rule_truth_levels(inputs, output_var)
CallGetRuleTruthLevels ==
    /\ pc = "idle"
    /\ \E inputs \in ModelInputs, output_var \in OutputVars \cup {""} :
        /\ call' = [NoCall EXCEPT !.fn = "get_rule_truth_levels",
                                  !.inputs = inputs,
                                  !.output_var = output_var]
        /\ truth_levels' = GetRuleTruthLevels(rules, inputs, output_var)
    /\ pc' = "returned"
    /\ UNCHANGED <<engine, rest, idx, output_mf, x_range, agg_result, ret>>

\* _aggregate(values, agg_type)
CallAggregate ==
    /\ pc = "idle"
    /\ \E values \in SeqsUpTo(AggregateValues, MaxValues),
          agg_type \in AggregationType :
        /\ call' = [NoCall EXCEPT !.fn = "_aggregate", !.values = values,
                                  !.agg_type = agg_type]
        /\ agg_result' = Aggregate(values, agg_type)
    /\ pc' = "returned"
    /\ UNCHANGED <<engine, rest, idx, output_mf, x_range, truth_levels, ret>>

\* entry of inference_truth_level: the output variable lookup and the grids
CallInferenceTruthLevel ==
    /\ pc = "idle"
    /\ \E inputs \in ModelInputs, output_var \in OutputVars,
          impl_type \in ImplicationType, agg_type \in AggregationType :
        /\ call' = [NoCall EXCEPT !.fn = "inference_truth_level",
                                  !.inputs = inputs,
                                  !.output_var = output_var,
                                  !.impl_type = impl_type,
                                  !.agg_type = agg_type]
        /\ IF output_var \notin DOMAIN variables
           THEN /\ pc' = "raised"
                /\ UNCHANGED <<idx, output_mf, x_range>>
           ELSE /\ pc' = "inference_truth_level"
                /\ idx' = 1
                /\ x_range' = Arr(OutputGrid(output_var, Resolution))
                /\ output_mf' = Arr(Zeros(Resolution))
    /\ UNCHANGED <<engine, rest, truth_levels, agg_result, ret>>

\* one pass of `for rule in self.rules` of inference_truth_level
TruthLevelRule ==
    /\ pc = "inference_truth_level"
    /\ idx <= Len(rules)
    /\ output_mf' = Arr(TruthLevelStep(rules[idx], call.inputs,
                            call.output_var, call.impl_type, call.agg_type,
                            output_mf, x_range))
    /\ idx' = idx + 1
    /\ UNCHANGED <<engine, rest, pc, call, x_range, truth_levels,
                   agg_result, ret>>

\* return output_mf, x_range
TruthLevelReturn ==
    /\ pc = "inference_truth_level"
    /\ idx > Len(rules)
    /\ pc' = "returned"
    /\ UNCHANGED <<engine, rest, call, idx, output_mf, x_range, truth_levels,
                   agg_result, ret>>

\* entry of inference_composition returning an empty curve, instead of
\* raising, when the output variable is unknown
CallInferenceComposition_NoRaise ==
    /\ pc = "idle"
    /\ \E inputs \in ModelInputs, output_var \in OutputVars,
          comp_type \in CompositionType,
          impl_type \in ImplicationType, agg_type \in AggregationType :
        /\ call' = [NoCall EXCEPT !.fn = "inference_composition",
                                  !.inputs = inputs,
                                  !.output_var = output_var,
                                  !.comp_type = comp_type,
                                  !.impl_type = impl_type,
                                  !.agg_type = agg_type]
        /\ IF output_var \notin DOMAIN variables
           THEN /\ pc' = "returned"
                /\ UNCHANGED <<idx, x_range>>
                /\ output_mf' = Arr(Zeros(Resolution))
           ELSE /\ pc' = "inference_composition"
                /\ idx' = 1
                /\ x_range' = Arr(OutputGrid(output_var, Resolution))
                /\ output_mf' = Arr(Zeros(Resolution))
    /\ UNCHANGED <<engine, rest, truth_levels, agg_result, ret>>

\* entry of inference_composition
CallInferenceComposition ==
    /\ pc = "idle"
    /\ \E inputs \in ModelInputs, output_var \in OutputVars,
          comp_type \in CompositionType,
          impl_type \in ImplicationType, agg_type \in AggregationType :
        /\ call' = [NoCall EXCEPT !.fn = "inference_composition",
                                  !.inputs = inputs,
                                  !.output_var = output_var,
                                  !.comp_type = comp_type,
                                  !.impl_type = impl_type,
                                  !.agg_type = agg_type]
        /\ IF output_var \notin DOMAIN variables
           THEN /\ pc' = "raised"
                /\ UNCHANGED <<idx, output_mf, x_range>>
           ELSE /\ pc' = "inference_composition"
                /\ idx' = 1
                /\ x_range' = Arr(OutputGrid(output_var, Resolution))
                /\ output_mf' = Arr(Zeros(Resolution))
    /\ UNCHANGED <<engine, rest, truth_levels, agg_result, ret>>

\* one pass of `for rule in self.rules` of inference_composition
CompositionRule ==
    /\ pc = "inference_composition"
    /\ idx <= Len(rules)
    /\ output_mf' = Arr(CompositionStep(rules[idx], call.inputs,
                            call.output_var, call.comp_type, call.impl_type,
                            call.agg_type, output_mf, x_range))
    /\ idx' = idx + 1
    /\ UNCHANGED <<engine, rest, pc, call, x_range, truth_levels,
                   agg_result, ret>>

\* return output_mf, x_range
CompositionReturn ==
    /\ pc = "inference_composition"
    /\ idx > Len(rules)
    /\ pc' = "returned"
    /\ UNCHANGED <<engine, rest, call, idx, output_mf, x_range, truth_levels,
                   agg_result, ret>>

\* _compute_output: the curve an inference method returned goes to
\* engine.defuzzify_centroid(membership, x_range)
DefuzzifyResult ==
    /\ pc = "returned"
    /\ call.fn \in {"inference_truth_level", "inference_composition"}
    /\ ret' = DefuzzifyCentroid(output_mf, x_range)
    /\ pc' = "defuzzified"
    /\ UNCHANGED <<engine, rest, call, idx, output_mf, x_range, truth_levels,
                   agg_result>>

\* the caller takes the result (or the exception); the engine is reused
Finish ==
    /\ pc \in {"returned", "raised", "defuzzified"}
    /\ pc' = "idle"
    /\ call' = NoCall
    /\ idx' = 0
    /\ output_mf' = <<>>
    /\ x_range' = <<>>
    /\ truth_levels' = <<>>
    /\ agg_result' = Zero
    /\ ret' = Zero
    /\ UNCHANGED <<engine, rest>>

Next ==
    \/ CallGetRuleTruthLevels
    \/ CallAggregate
    \/ CallInferenceTruthLevel
    \/ TruthLevelRule
    \/ TruthLevelReturn
    \/ CallInferenceComposition
    \/ CompositionRule
    \/ CompositionReturn
    \/ DefuzzifyResult
    \/ Finish

Spec == Init /\ [][Next]_vars

(***************************************************************************)
(* Membership functions evaluated on their own: mf(x) for every shape with *)
(* ordered parameters, the degenerate ones included                        *)
(***************************************************************************)
\* the ordered triples over 0..MaxParam
OrderedTriples ==
    {t \in (0..MaxParam) \X (0..MaxParam) \X (0..MaxParam) :
        t[1] <= t[2] /\ t[2] <= t[3]}

\* TriangularMF(a, b, c) with a <= b <= c, and Triangular(0, 5, 10)
TriangularShapes ==
    {Tri(t[1], t[2], t[3]) : t \in OrderedTriples} \cup {Tri(0, 5, 10)}

\* the ordered quadruples over 0..MaxParam
OrderedQuadruples ==
    {q \in (0..MaxParam) \X (0..MaxParam) \X (0..MaxParam) \X (0..MaxParam) :
        q[1] <= q[2] /\ q[2] <= q[3] /\ q[3] <= q[4]}

\* TrapezoidalMF(a, b, c, d) with a <= b <= c <= d, and Trapezoidal(0, 2, 8, 10)
TrapezoidalShapes ==
    {Trap(q[1], q[2], q[3], q[4]) : q \in OrderedQuadruples}
    \cup {Trap(0, 2, 8, 10)}

\* the arguments x: the half-integers from -1/2 to MaxParam + 1/2 and the
\* integers up to 11
XPoints ==
    {Norm(k, 2) : k \in (-1)..(2 * MaxParam + 1)} \cup {R(k) : k \in (-1)..11}

InitMF ==
    /\ Construct(<<>>, ModelVariables, 0)
    /\ pc = "idle"
    /\ call = NoCall
    /\ idx = 0
    /\ output_mf = <<>>
    /\ x_range = <<>>
    /\ truth_levels = <<>>
    /\ agg_result = Zero
    /\ ret = Zero
    /\ frames = <<>>
    /\ NothingElse

\* TriangularMF(a, b, c)(x)
CallTriangularMF ==
    /\ pc = "idle"
    /\ \E mf \in TriangularShapes, x \in XPoints :
        /\ call' = [fn |-> "TriangularMF", mf |-> mf, x |-> x]
        /\ ret' = TriangularMF(mf, x)
    /\ pc' = "returned"
    /\ UNCHANGED <<engine, rest, idx, output_mf, x_range, truth_levels,
                   agg_result>>

\* TrapezoidalMF(a, b, c, d)(x)
CallTrapezoidalMF ==
    /\ pc = "idle"
    /\ \E mf \in TrapezoidalShapes, x \in XPoints :
        /\ call' = [fn |-> "TrapezoidalMF", mf |-> mf, x |-> x]
        /\ ret' = TrapezoidalMF(mf, x)
    /\ pc' = "returned"
    /\ UNCHANGED <<engine, rest, idx, output_mf, x_range, truth_levels,
                   agg_result>>

NextMF ==
    \/ CallTriangularMF
    \/ CallTrapezoidalMF
    \/ Finish

SpecMF == InitMF /\ [][NextMF]_vars

(***************************************************************************)
(* The defuzzifiers on their own: a membership curve over the grid of an   *)
(* output variable                                                         *)
(***************************************************************************)
\* membership values of the curves
CurveValues == {Zero, <<1, 2>>, One}

\* the output variables whose grid the curves lie on
GridVars == {"power", "level"}

\* defuzzify_centroid(membership, x_range)
CallDefuzzifyCentroid ==
    /\ pc = "idle"
    /\ \E n \in 1..MaxPoints, output_var \in GridVars :
       \E membership \in [1..n -> CurveValues] :
        LET xs == Arr(OutputGrid(output_var, n))
        IN  /\ call' = [fn |-> "defuzzify_centroid",
                        membership |-> membership, x_range |-> xs]
            /\ ret' = DefuzzifyCentroid(membership, xs)
    /\ pc' = "returned"
    /\ UNCHANGED <<engine, rest, idx, output_mf, x_range, truth_levels,
                   agg_result>>

\* defuzzify_bisector(membership, x_range)
CallDefuzzifyBisector ==
    /\ pc = "idle"
    /\ \E n \in 1..MaxPoints, output_var \in GridVars :
       \E membership \in [1..n -> CurveValues] :
        LET xs == Arr(OutputGrid(output_var, n))
        IN  /\ call' = [fn |-> "defuzzify_bisector",
                        membership |-> membership, x_range |-> xs]
            /\ ret' = DefuzzifyBisector(membership, xs)
    /\ pc' = "returned"
    /\ UNCHANGED <<engine, rest, idx, output_mf, x_range, truth_levels,
                   agg_result>>

\* defuzzify_mom(membership, x_range)
CallDefuzzifyMom ==
    /\ pc = "idle"
    /\ \E n \in 1..MaxPoints, output_var \in GridVars :
       \E membership \in [1..n -> CurveValues] :
        LET xs == Arr(OutputGrid(output_var, n))
        IN  /\ call' = [fn |-> "defuzzify_mom",
                        membership |-> membership, x_range |-> xs]
            /\ ret' = DefuzzifyMom(membership, xs)
    /\ pc' = "returned"
    /\ UNCHANGED <<engine, rest, idx, output_mf, x_range, truth_levels,
                   agg_result>>

NextDefuzzify ==
    \/ CallDefuzzifyCentroid
    \/ CallDefuzzifyBisector
    \/ CallDefuzzifyMom
    \/ Finish

\* an engine over the loaded variables whose defuzzifiers are called
SpecDefuzzify == InitMF /\ [][NextDefuzzify]_vars

(***************************************************************************)
(* Threads calling one engine: every call runs in a frame of its own       *)
(* (arguments and locals), the engine is shared; the rule loops of the     *)
(* inference methods interleave pass by pass                               *)
(***************************************************************************)
Threads == {1, 2}

\* the engines the threads share: the first rules of the loaded model
SharedRuleLists == {SubSeq(ModelRules, 1, n) : n \in 0..MaxRules}

\* the input maps the threads call with: those holding two variables
ThreadInputs == {inputs \in ModelInputs : Cardinality(DOMAIN inputs) = 2}

\* the calls a thread makes
ThreadCalls ==
    UNION {
        { [NoCall EXCEPT !.fn = "get_rule_truth_levels", !.inputs = inputs,
                         !.output_var = "power"],
          [NoCall EXCEPT !.fn = "inference_truth_level", !.inputs = inputs,
                         !.output_var = "power", !.impl_type = "mamdani",
                         !.agg_type = "sum"],
          [NoCall EXCEPT !.fn = "inference_truth_level", !.inputs = inputs,
                         !.output_var = "power", !.impl_type = "larsen",
                         !.agg_type = "probor"],
          [NoCall EXCEPT !.fn = "inference_composition", !.inputs = inputs,
                         !.output_var = "power", !.comp_type = "max_prod",
                         !.impl_type = "mamdani", !.agg_type = "sum"] }
        : inputs \in ThreadInputs }

\* a thread that is in no call
IdleFrame ==
    [pc |-> "idle", call |-> NoCall, idx |-> 0, output_mf |-> <<>>,
     x_range |-> <<>>, truth_levels |-> <<>>, ret |-> Zero]

InitThreads ==
    /\ \E rs \in SharedRuleLists : Construct(rs, ModelVariables, 0)
    /\ pc = "idle"
    /\ call = NoCall
    /\ idx = 0
    /\ output_mf = <<>>
    /\ x_range = <<>>
    /\ truth_levels = <<>>
    /\ agg_result = Zero
    /\ ret = Zero
    /\ frames = [t \in Threads |-> IdleFrame]
    /\ NothingElse

\* what the threads' steps leave alone: the engine and the single caller
main == <<engine, pc, call, idx, output_mf, x_range, truth_levels,
          agg_result, ret, elsewhere>>

\* thread t enters a method of the engine; get_rule_truth_levels runs to
\* its return, the inference methods to the start of their rule loop
ThreadCall(t) ==
    /\ frames[t].pc = "idle"
    /\ \E c \in ThreadCalls :
        frames' = [frames EXCEPT ![t] =
            IF c.fn = "get_rule_truth_levels"
            THEN [IdleFrame EXCEPT
                     !.pc = "returned", !.call = c,
                     !.truth_levels =
                         GetRuleTruthLevels(rules, c.inputs, c.output_var)]
            ELSE [IdleFrame EXCEPT
                     !.pc = c.fn, !.call = c, !.idx = 1,
                     !.x_range = Arr(OutputGrid(c.output_var, Resolution)),
                     !.output_mf = Arr(Zeros(Resolution))]]
    /\ UNCHANGED main

\* the curve after the pass of the rule loop thread t is about to run
ThreadPass(t) ==
    LET f == frames[t]
    IN  IF f.pc = "inference_truth_level"
        THEN Arr(TruthLevelStep(rules[f.idx], f.call.inputs,
                     f.call.output_var, f.call.impl_type, f.call.agg_type,
                     f.output_mf, f.x_range))
        ELSE Arr(CompositionStep(rules[f.idx], f.call.inputs,
                     f.call.output_var, f.call.comp_type, f.call.impl_type,
                     f.call.agg_type, f.output_mf, f.x_range))

InLoop(f) == f.pc \in {"inference_truth_level", "inference_composition"}

\* the pass with output_mf kept on the engine (self.output_mf): every
\* thread inside a rule loop sees the curve thread t has just written
ThreadRule_CurveOnEngine(t) ==
    /\ InLoop(frames[t])
    /\ frames[t].idx <= Len(rules)
    /\ frames' = [u \in Threads |->
           IF u = t
           THEN [frames[t] EXCEPT !.output_mf = ThreadPass(t),
                                  !.idx = frames[t].idx + 1]
           ELSE IF InLoop(frames[u])
                THEN [frames[u] EXCEPT !.output_mf = ThreadPass(t)]
           ELSE frames[u]]
    /\ UNCHANGED main

\* one pass of `for rule in self.rules` in the frame of thread t
ThreadRule(t) ==
    /\ InLoop(frames[t])
    /\ frames[t].idx <= Len(rules)
    /\ frames' = [frames EXCEPT ![t].output_mf = ThreadPass(t),
                                ![t].idx = frames[t].idx + 1]
    /\ UNCHANGED main

\* return output_mf, x_range in the frame of thread t
ThreadReturn(t) ==
    /\ InLoop(frames[t])
    /\ frames[t].idx > Len(rules)
    /\ frames' = [frames EXCEPT ![t].pc = "returned"]
    /\ UNCHANGED main

\* thread t hands the returned curve to defuzzify_centroid,
\* defuzzify_bisector or defuzzify_mom
ThreadDefuzzify(t) ==
    /\ frames[t].pc = "returned"
    /\ frames[t].call.fn # "get_rule_truth_levels"
    /\ \E method \in {"defuzzify_centroid", "defuzzify_bisector",
                       "defuzzify_mom"} :
        frames' = [frames EXCEPT
            ![t].pc = method,
            ![t].ret =
                IF method = "defuzzify_centroid"
                THEN DefuzzifyCentroid(frames[t].output_mf, frames[t].x_range)
                ELSE IF method = "defuzzify_bisector"
                THEN DefuzzifyBisector(frames[t].output_mf, frames[t].x_range)
                ELSE DefuzzifyMom(frames[t].output_mf, frames[t].x_range)]
    /\ UNCHANGED main

\* thread t takes its result and is free for the next call
ThreadFinish(t) ==
    /\ frames[t].pc \notin {"idle", "inference_truth_level",
                             "inference_composition"}
    /\ frames' = [frames EXCEPT ![t] = IdleFrame]
    /\ UNCHANGED main

NextThreads ==
    \E t \in Threads :
        \/ ThreadCall(t)
        \/ ThreadRule(t)
        \/ ThreadReturn(t)
        \/ ThreadDefuzzify(t)
        \/ ThreadFinish(t)

SpecThreads == InitThreads /\ [][NextThreads]_vars

(***************************************************************************)
(* JSONFuzzyModelParser: parse_file resets the parser and builds each      *)
(* variable of the JSON model with _parse_variable, term by term           *)
(***************************************************************************)
\* most terms of a variable definition
MaxTerms == 2

\* float('inf') and float('-inf')
Inf == <<1, 0>>

NegInf == <<-1, 0>>

\* None where a float is expected
None == <<0, 0>>

\* str.lower() on the letters of the type names, a string being the tuple
\* of its characters
LowerChar(c) ==
    CASE c = "T" -> "t" [] c = "R" -> "r" [] c = "I" -> "i"
      [] c = "A" -> "a" [] c = "P" -> "p" [] c = "G" -> "g"
      [] c = "U" -> "u" [] c = "S" -> "s" [] OTHER -> c

Lower(str) == [k \in 1..Len(str) |-> LowerChar(str[k])]

\* what a raise of ValueError leaves in place of a membership function
ValueError == [type |-> "ValueError"]

\* _create_mf asking for at least 3 and at least 4 parameters and passing
\* on the first ones
CreateMF_ArityAtLeast(mf_type, params) ==
    LET lowered == Lower(mf_type)
    IN  IF lowered = <<"t", "r", "i">> /\ Len(params) >= 3
        THEN Tri(params[1], params[2], params[3])
        ELSE IF lowered = <<"t", "r", "a", "p">> /\ Len(params) >= 4
        THEN Trap(params[1], params[2], params[3], params[4])
        ELSE ValueError

\* JSONFuzzyModelParser._create_mf
CreateMF(mf_type, params) ==
    LET lowered == Lower(mf_type)
    IN  IF lowered = <<"t", "r", "i">> /\ Len(params) = 3
        THEN Tri(params[1], params[2], params[3])
        ELSE IF lowered = <<"t", "r", "a", "p">> /\ Len(params) = 4
        THEN Trap(params[1], params[2], params[3], params[4])
        ELSE ValueError

\* FuzzyVariable.__init__: the declared range, or (inf, -inf) without one
NewFuzzyVariable(min_v, max_v) ==
    IF min_v # None /\ max_v # None
    THEN [min_val |-> min_v, max_val |-> max_v, terms |-> <<>>]
    ELSE [min_val |-> Inf, max_val |-> NegInf, terms |-> <<>>]

\* the list params of _update_range_from_mf
RangeParams(mf) ==
    IF mf.type = "tri" THEN <<mf.a, mf.b, mf.c>>
    ELSE IF mf.type = "trap" THEN <<mf.a, mf.b, mf.c, mf.d>>
    ELSE <<>>

\* FuzzyVariable._update_range_from_mf
UpdateRangeFromMF(v, mf) ==
    LET params == RangeParams(mf)
    IN  IF params = <<>> THEN v
        ELSE LET min_val == SeqMin(params)
                 max_val == SeqMax(params)
                 lo == IF v.min_val = Inf THEN min_val
                       ELSE IF RLt(min_val, v.min_val) THEN min_val
                       ELSE v.min_val
                 hi == IF v.max_val = NegInf THEN max_val
                       ELSE IF RLt(v.max_val, max_val) THEN max_val
                       ELSE v.max_val
             IN  [v EXCEPT !.min_val = lo, !.max_val = hi]

\* FuzzyVariable.add_term
AddTerm(v, term_name, mf) ==
    LET terms == [t \in DOMAIN v.terms \cup {term_name} |->
                    IF t = term_name THEN mf ELSE v.terms[t]]
    IN  UpdateRangeFromMF([v EXCEPT !.terms = terms], mf)

\* the "type" strings of the JSON terms
TermTypes ==
    { <<"t", "r", "i">>, <<"t", "r", "a", "p">>, <<"T", "R", "I">>,
      <<"g", "a", "u", "s", "s">> }

\* the "params" lists of the JSON terms: inside the declared ranges, outside
\* them, unordered, too short and too long
TermParams ==
    { <<2, 3, 4>>, <<-2, 3, 8>>, <<4, 3, 2>>, <<2, 3, 3, 4>>, <<2, 3>>,
      <<0, 1, 2, 3, 4>> }

\* the "range" pairs of the JSON variables
DeclaredRanges == { <<R(0), R(6)>>, <<R(2), R(4)>>, <<None, None>> }

\* the names of the JSON terms, in the order of the "terms" dict
TermNames ==
    [k \in 1..(MaxTerms + 1) |->
        CASE k = 1 -> "low" [] k = 2 -> "mid" [] k = 3 -> "high"
          [] OTHER -> "top"]

\* the "terms" dicts of n terms with distinct names
TermLists(n) ==
    { [k \in 1..n |-> [name |-> TermNames[k], type |-> td[k][1],
                       params |-> td[k][2]]] :
        td \in [1..n -> TermTypes \X TermParams] }

InitParser ==
    /\ Construct(<<>>, <<>>, 0)
    /\ pc = "idle"
    /\ call = NoCall
    /\ idx = 0
    /\ output_mf = <<>>
    /\ x_range = <<>>
    /\ truth_levels = <<>>
    /\ agg_result = Zero
    /\ ret = Zero
    /\ frames = <<>>
    /\ NothingElse

\* parse_file up to the first term of its variable: the parser is reset
\* and _parse_variable creates the FuzzyVariable
ParseFile ==
    /\ pc = "idle"
    /\ \E range \in DeclaredRanges, n \in 0..MaxTerms :
       \E terms \in TermLists(n) :
        /\ call' = [fn |-> "_parse_variable",
                    var_json |-> [name |-> "amount", range |-> range,
                                  terms |-> terms]]
        /\ variable' = NewFuzzyVariable(range[1], range[2])
    /\ variables' = <<>>
    /\ rules' = <<>>
    /\ idx' = 1
    /\ pc' = "_parse_variable"
    /\ UNCHANGED <<condition_resolution, frames, facts, proven_goals, stack,
                   output_mf, x_range, truth_levels, agg_result, ret>>

\* one turn of `for term_name, term_data in var_json["terms"].items()`
ParseTerm ==
    /\ pc = "_parse_variable"
    /\ idx <= Len(call.var_json.terms)
    /\ LET term_data == call.var_json.terms[idx]
           mf == CreateMF(term_data.type, term_data.params)
       IN  IF mf = ValueError
           THEN /\ pc' = "raised"
                /\ UNCHANGED <<variable, idx>>
           ELSE /\ variable' = AddTerm(variable, term_data.name, mf)
                /\ idx' = idx + 1
                /\ pc' = pc
    /\ UNCHANGED <<engine, frames, facts, proven_goals, stack, call,
                   output_mf, x_range, truth_levels, agg_result, ret>>

\* the end of _parse_variable: self.variables[name] = variable
ParseVariableReturn ==
    /\ pc = "_parse_variable"
    /\ idx > Len(call.var_json.terms)
    /\ variables' = [n \in DOMAIN variables \cup {call.var_json.name} |->
                        IF n = call.var_json.name THEN variable
                        ELSE variables[n]]
    /\ pc' = "returned"
    /\ UNCHANGED <<rules, condition_resolution, frames, variable, facts,
                   proven_goals, stack, call, idx, output_mf, x_range,
                   truth_levels, agg_result, ret>>

NextParser ==
    \/ ParseFile
    \/ ParseTerm
    \/ ParseVariableReturn
    \/ Finish

SpecParser == InitParser /\ [][NextParser]_vars

(***************************************************************************)
(* The constructor and _build_input_membership on their own: the engine    *)
(* starts right after __init__ returned, with its argument still in `call` *)
(***************************************************************************)
\* default of the condition_resolution parameter of __init__
DefaultConditionResolution == 201

\* condition_resolution arguments: negative, zero, below and at the clamp,
\* above it, and the default
ConstructorResolutions ==
    {-7, -1, 0, 1, 50, 51, 52, 53, DefaultConditionResolution}

\* the variable table with a variable whose range is a single point
FuzzifyVariables ==
    [n \in DOMAIN ModelVariables \cup {"fixed"} |->
        IF n = "fixed"
        THEN FuzzyVariable(4, 4, [t \in {"only"} |-> Tri(4, 4, 4)])
        ELSE ModelVariables[n]]

\* crisp values: the half-integers from -1 to 7, and 50 and 100
CrispValues == {Norm(k, 2) : k \in (-2)..14} \cup {R(50), R(100)}

InitFuzzify ==
    /\ \E requested \in ConstructorResolutions :
        /\ Construct(<<>>, FuzzifyVariables, requested)
        /\ call = [fn |-> "__init__", condition_resolution |-> requested]
    /\ pc = "returned"
    /\ idx = 0
    /\ output_mf = <<>>
    /\ x_range = <<>>
    /\ truth_levels = <<>>
    /\ agg_result = Zero
    /\ ret = Zero
    /\ frames = <<>>
    /\ NothingElse

\* _build_input_membership(var, value): returns (x_range, membership)
CallBuildInputMembership ==
    /\ pc = "idle"
    /\ \E var_name \in DOMAIN variables, value \in CrispValues :
        LET var == variables[var_name]
        IN  /\ call' = [fn |-> "_build_input_membership",
                        var |-> var_name, value |-> value]
            /\ x_range' = Linspace(var.min_val, var.max_val,
                                   condition_resolution)
            /\ ret' = BuildInputMembership(var, value, condition_resolution)
    /\ pc' = "returned"
    /\ UNCHANGED <<engine, rest, idx, output_mf, truth_levels, agg_result>>

NextFuzzify ==
    \/ CallBuildInputMembership
    \/ Finish

SpecFuzzify == InitFuzzify /\ [][NextFuzzify]_vars

(***************************************************************************)
(* RuleParser.parse_rule (lab1/rule_parser.py).  A text is the tuple of    *)
(* its characters.  The Cyrillic capitals of the keywords are written      *)
(* "E" "S" "L" "I" "T" "O" (the keywords ESLI, TO, I, ILI), the same       *)
(* letters in lower case "e" "s" "l" "i" "t" "o"; every other letter and   *)
(* digit stands for itself.                                                *)
(***************************************************************************)
\* Condition(object_name, operator, value)
Condition(object_name, operator, value) ==
    [object_name |-> object_name, operator |-> operator, value |-> value]

\* Rule(conditions, logical_operators, result_object, result_value)
Rule(conditions, logical_operators, result_object, result_value) ==
    [conditions |-> conditions, logical_operators |-> logical_operators,
     result_object |-> result_object, result_value |-> result_value]

\* most conditions of a rule text
MaxConditions == 2

\* the character classes of the patterns: \s, \w, [^\s=] of result_pattern
\* and the class [^...\s] of condition_pattern, which leaves out capital I,
\* capital L and the space
InClass(c, class) ==
    CASE class = "space" -> c = " "
      [] class = "word" -> c \notin {" ", "=", "<", ">", "-"}
      [] class = "object" -> c \notin {" ", "="}
      [] OTHER -> c \notin {"I", "L", " "}

\* str.upper() on one character
UpperChar(c) ==
    CASE c = "e" -> "E" [] c = "s" -> "S" [] c = "l" -> "L"
      [] c = "i" -> "I" [] c = "t" -> "T" [] c = "o" -> "O" [] OTHER -> c

\* str.upper()
Upper(str) == [k \in 1..Len(str) |-> UpperChar(str[k])]

\* text[p:], p counted from 1
From(text, p) == SubSeq(text, p, Len(text))

\* the first position from p on whose character is not in class, Len + 1
\* if none
RECURSIVE RunEnd(_, _, _)
RunEnd(text, p, class) ==
    IF p > Len(text) \/ ~InClass(text[p], class) THEN p
    ELSE RunEnd(text, p + 1, class)

\* the last position up to p whose character is no space, 0 if none
RECURSIVE LastNonSpace(_, _)
LastNonSpace(text, p) ==
    IF p = 0 \/ text[p] # " " THEN p ELSE LastNonSpace(text, p - 1)

\* str.strip()
Strip(text) ==
    SubSeq(text, RunEnd(text, 1, "space"), LastNonSpace(text, Len(text)))

\* text has sub at position p
HasAt(text, p, sub) ==
    /\ p + Len(sub) - 1 <= Len(text)
    /\ \A k \in 1..Len(sub) : text[p + k - 1] = sub[k]

\* str.find(sub) from position p on: the first position of sub, 0 if none
RECURSIVE FindFrom(_, _, _)
FindFrom(text, sub, p) ==
    IF p + Len(sub) - 1 > Len(text) THEN 0
    ELSE IF HasAt(text, p, sub) THEN p
    ELSE FindFrom(text, sub, p + 1)

\* the comparison operators in the order of the alternation (>=|<=|>|<|=)
OperatorStrings == << <<">", "=">>, <<"<", "=">>, <<">">>, <<"<">>, <<"=">> >>

\* the rest of condition_pattern after (\w+)\s*, at position q, trying the
\* operators from the k-th on
RECURSIVE MatchOperatorAt(_, _, _)
MatchOperatorAt(text, q, k) ==
    IF k > Len(OperatorStrings) THEN [ok |-> FALSE]
    ELSE LET op == OperatorStrings[k]
             r == RunEnd(text, q + Len(op), "space")
             v == RunEnd(text, r, "value")
         IN  IF HasAt(text, q, op) /\ v > r
             THEN [ok |-> TRUE, operator |-> op, value |-> SubSeq(text, r, v - 1),
                   end |-> v]
             ELSE MatchOperatorAt(text, q, k + 1)

\* condition_pattern matched at position p
MatchConditionAt(text, p) ==
    LET w == RunEnd(text, p, "word")
        m == MatchOperatorAt(text, RunEnd(text, w, "space"), 1)
    IN  IF w > p /\ m.ok
        THEN [ok |-> TRUE, end |-> m.end,
              groups |-> <<SubSeq(text, p, w - 1), m.operator, m.value>>]
        ELSE [ok |-> FALSE]

\* re.findall(self.condition_pattern, conditions_text) from position p on
RECURSIVE FindAllConditions(_, _)
FindAllConditions(text, p) ==
    IF p > Len(text) THEN <<>>
    ELSE LET m == MatchConditionAt(text, p)
         IN  IF m.ok THEN <<m.groups>> \o FindAllConditions(text, m.end)
             ELSE FindAllConditions(text, p + 1)

\* logical_pattern \s+(I|ILI)\s+ matched at position p
MatchLogicalAt(text, p) ==
    LET e == RunEnd(text, p, "space")
        short == RunEnd(text, e + 1, "space")
        long == RunEnd(text, e + 3, "space")
    IN  IF e > p /\ HasAt(text, e, <<"I">>) /\ short > e + 1
        THEN [ok |-> TRUE, end |-> short, group |-> <<"I">>]
        ELSE IF e > p /\ HasAt(text, e, <<"I", "L", "I">>) /\ long > e + 3
        THEN [ok |-> TRUE, end |-> long, group |-> <<"I", "L", "I">>]
        ELSE [ok |-> FALSE]

\* re.findall(self.logical_pattern, conditions_text) from position p on
RECURSIVE FindAllLogical(_, _)
FindAllLogical(text, p) ==
    IF p > Len(text) THEN <<>>
    ELSE LET m == MatchLogicalAt(text, p)
         IN  IF m.ok THEN <<m.group>> \o FindAllLogical(text, m.end)
             ELSE FindAllLogical(text, p + 1)

\* RuleParser._get_operator: the ComparisonOperator of the matched text
GetOperator(op_str) ==
    CASE op_str = <<"=">> -> "="
      [] op_str = <<">", "=">> -> ">="
      [] op_str = <<"<", "=">> -> "<="
      [] op_str = <<">">> -> ">"
      [] op_str = <<"<">> -> "<"

\* RuleParser._parse_conditions
ParseConditions(conditions_text) ==
    LET condition_matches == FindAllConditions(conditions_text, 1)
        logical_matches == FindAllLogical(conditions_text, 1)
        conditions == [k \in 1..Len(condition_matches) |->
                          Condition(Strip(condition_matches[k][1]),
                                    GetOperator(condition_matches[k][2]),
                                    Strip(condition_matches[k][3]))]
        logical_operators == [k \in 1..Len(logical_matches) |->
                                 IF logical_matches[k] = <<"I">> THEN "AND"
                                 ELSE "OR"]
    IN  IF condition_matches = <<>> THEN ValueError
        ELSE IF Len(conditions) # Len(logical_operators) + 1 THEN ValueError
        ELSE [type |-> "ok", conditions |-> conditions,
              logical_operators |-> logical_operators]

\* RuleParser._parse_result: result_pattern ([^\s=]+)\s*=\s*(.+)$ matched at
\* the start of result_text
ParseResult(result_text) ==
    LET g == RunEnd(result_text, 1, "object")
        q == RunEnd(result_text, g, "space")
        r == RunEnd(result_text, q + 1, "space")
        \* \s* gives back a space when nothing else is left for (.+)
        v == IF r > Len(result_text) /\ r > q + 1 THEN r - 1 ELSE r
    IN  IF g > 1 /\ HasAt(result_text, q, <<"=">>) /\ v <= Len(result_text)
        THEN [type |-> "ok",
              object_name |-> Strip(SubSeq(result_text, 1, g - 1)),
              value |-> Strip(From(result_text, v))]
        ELSE ValueError

\* RuleParser.parse_rule: the Rule, or ValueError
ParseRule(rule_text) ==
    LET stripped == Strip(rule_text)
        text == Strip(From(stripped, 5))
        to_index == FindFrom(Upper(text), <<" ", "T", "O", " ">>, 1)
        conditions_part == Strip(SubSeq(text, 1, to_index - 1))
        result_part == Strip(From(text, to_index + 4))
        parsed == ParseConditions(conditions_part)
        result == ParseResult(result_part)
    IN  IF ~HasAt(Upper(stripped), 1, <<"E", "S", "L", "I">>) THEN ValueError
        ELSE IF to_index = 0 THEN ValueError
        ELSE IF parsed = ValueError THEN ValueError
        ELSE IF result = ValueError THEN ValueError
        ELSE Rule(parsed.conditions, parsed.logical_operators,
                  Strip(result.object_name), Strip(result.value))

\* ComparisonOperator.value: the text of an operator
OperatorText(operator) ==
    CASE operator = "=" -> <<"=">>
      [] operator = ">=" -> <<">", "=">>
      [] operator = "<=" -> <<"<", "=">>
      [] operator = ">" -> <<">">>
      [] operator = "<" -> <<"<">>

\* LogicalOperator.value: the text of a connective
ConnectiveText(op) == IF op = "AND" THEN <<"I">> ELSE <<"I", "L", "I">>

\* Condition.__str__ with `gap` around the operator
ConditionText(cond, gap) ==
    cond.object_name \o gap \o OperatorText(cond.operator) \o gap \o cond.value

\* the conditions of Rule.__str__ from the k-th on
RECURSIVE ConditionsText(_, _, _)
ConditionsText(rule, k, gap) ==
    IF k > Len(rule.conditions) THEN <<>>
    ELSE (IF k = 1 THEN <<>>
          ELSE <<" ">> \o ConnectiveText(rule.logical_operators[k - 1])
                 \o <<" ">>)
         \o ConditionText(rule.conditions[k], gap)
         \o ConditionsText(rule, k + 1, gap)

\* the result of Rule.__str__
ResultText(rule) == rule.result_object \o <<"=">> \o rule.result_value

\* Rule.__str__: 'ESLI c1 [I|ILI c2 ...] TO obj=val'
RuleText(rule) ==
    <<"E", "S", "L", "I", " ">> \o ConditionsText(rule, 1, <<>>)
    \o <<" ", "T", "O", " ">> \o ResultText(rule)

\* the ways a rule is typed in: as Rule.__str__ prints it, with the
\* keywords in lower case, with spaces around the comparison operators,
\* without the leading keyword, and without the result part
Forms == {"plain", "lower", "spaced", "no_if", "no_then"}

TypedText(rule, form) ==
    CASE form = "plain" -> RuleText(rule)
      [] form = "lower" ->
            <<"e", "s", "l", "i", " ">> \o ConditionsText(rule, 1, <<>>)
            \o <<" ", "t", "o", " ">> \o ResultText(rule)
      [] form = "spaced" ->
            <<" ", "E", "S", "L", "I", " ">> \o ConditionsText(rule, 1, <<" ">>)
            \o <<" ", "T", "O", " ">> \o ResultText(rule) \o <<" ">>
      [] form = "no_if" -> From(RuleText(rule), 6)
      [] OTHER -> <<"E", "S", "L", "I", " ">> \o ConditionsText(rule, 1, <<>>)

\* the conditions typed in: every operator, names of one and two letters,
\* values in small and capital letters
TypedConditions ==
    { Condition(<<"m", "a">>, op, <<"3", "0">>) :
        op \in {"=", ">=", "<=", ">", "<"} }
    \cup { Condition(<<"a">>, "=", v) :
        v \in { <<"m", "a", "g">>, <<"L", "u", "k">>, <<"m", "I", "r">> } }

\* the rules typed in: up to MaxConditions conditions, one connective
\* between each two
TypedRules ==
    UNION { { Rule(cs, ops, <<"p">>, v) :
                cs \in [1..n -> TypedConditions],
                ops \in [1..(n - 1) -> {"AND", "OR"}],
                v \in { <<"z">>, <<"L", "u", "k">> } } :
            n \in 1..MaxConditions }

InitRuleParser ==
    /\ rules = <<>>
    /\ variables = <<>>
    /\ condition_resolution = 0
    /\ pc = "idle"
    /\ call = NoCall
    /\ idx = 0
    /\ output_mf = <<>>
    /\ x_range = <<>>
    /\ truth_levels = <<>>
    /\ agg_result = Zero
    /\ ret = Zero
    /\ frames = <<>>
    /\ NothingElse

\* parser.parse_rule(rule_text) for a rule typed in one of the forms
CallParseRule ==
    /\ pc = "idle"
    /\ \E rule \in TypedRules, form \in Forms :
        LET rule_text == TypedText(rule, form)
            parsed == ParseRule(rule_text)
        IN  /\ call' = [fn |-> "parse_rule", rule_text |-> rule_text,
                        typed |-> rule, form |-> form]
            /\ IF parsed = ValueError
               THEN pc' = "raised" /\ UNCHANGED ret
               ELSE pc' = "returned" /\ ret' = parsed
    /\ UNCHANGED <<engine, rest, idx, output_mf, x_range, truth_levels,
                   agg_result>>

NextRuleParser ==
    \/ CallParseRule
    \/ Finish

SpecRuleParser == InitRuleParser /\ [][NextRuleParser]_vars

(***************************************************************************)
(* The backward-chaining InferenceEngine (lab2/inference_engine.py) over   *)
(* the Rule objects of lab1/rule_parser.py.  prove and _evaluate_conditions *)
(* call each other; a frame of `stack` is one of their activations, the    *)
(* last frame the running one.  inference_trace, a log that is only        *)
(* appended to, is left out.                                               *)
(***************************************************************************)
\* longest rule list a backward-chaining engine is built with
MaxProverRules == 2

\* nested calls after which Python raises RecursionError (1000 by default;
\* here more than the deepest proof over rule lists without a cycle)
RecursionLimit == 8

\* a str and a float among the values of the fact base
Str(s) == [str |-> s]

Flt(n) == [float |-> n]

\* float(s) for the strings it accepts; the others raise ValueError
FloatOf == [s \in {"1", "2", "3", "5"} |->
                CASE s = "1" -> 1 [] s = "2" -> 2 [] s = "3" -> 3 [] OTHER -> 5]

\* str(x) of a value of the fact base
StrOf(x) ==
    IF "str" \in DOMAIN x THEN x.str
    ELSE CASE x.float = 1 -> "1.0" [] x.float = 2 -> "2.0"
           [] x.float = 3 -> "3.0" [] OTHER -> "5.0"

\* InferenceEngine._compare
Compare(left, operator, right) ==
    LET numeric == /\ "float" \in DOMAIN left \/ left.str \in DOMAIN FloatOf
                   /\ right \in DOMAIN FloatOf
        left_val == IF "float" \in DOMAIN left THEN left.float
                    ELSE FloatOf[left.str]
        right_val == FloatOf[right]
    IN  IF numeric
        THEN CASE operator = "=" -> left_val = right_val
               [] operator = ">=" -> left_val >= right_val
               [] operator = "<=" -> left_val <= right_val
               [] operator = ">" -> left_val > right_val
               [] operator = "<" -> left_val < right_val
               [] OTHER -> FALSE
        ELSE IF operator = "=" THEN StrOf(left) = right ELSE FALSE

\* the loop over zip(rule.logical_operators, results[1:]) from position k
RECURSIVE FoldResultsFrom(_, _, _, _)
FoldResultsFrom(result, results, logical_operators, k) ==
    IF k > Len(logical_operators) \/ k + 1 > Len(results) THEN result
    ELSE FoldResultsFrom(
            IF logical_operators[k] = "AND" THEN result /\ results[k + 1]
            ELSE IF logical_operators[k] = "OR" THEN result \/ results[k + 1]
            ELSE result,
            results, logical_operators, k + 1)

\* the end of _evaluate_conditions: results folded from the left
FoldResults(results, logical_operators) ==
    FoldResultsFrom(results[1], results, logical_operators, 1)

\* goal_key of prove
GoalKey(goal_object, goal_value) == goal_object \o "=" \o goal_value

\* the loop of prove from rule_index on: the first rule whose result is the
\* goal, or 0
RECURSIVE ProveScan(_, _, _, _)
ProveScan(rs, goal_object, goal_value, rule_index) ==
    IF rule_index > Len(rs) THEN 0
    ELSE IF rs[rule_index].result_object = goal_object
            /\ rs[rule_index].result_value = goal_value
    THEN rule_index
    ELSE ProveScan(rs, goal_object, goal_value, rule_index + 1)

\* the loop of _evaluate_conditions from condition k on, as far as the
\* facts are known: it ends with the folded result or at a condition whose
\* fact has to be proven
RECURSIVE EvaluateFromCondition(_, _, _, _)
EvaluateFromCondition(rule, k, results, fs) ==
    IF k > Len(rule.conditions)
    THEN [kind |-> "return", k |-> k, results |-> results,
          value |-> FoldResults(results, rule.logical_operators)]
    ELSE LET cond == rule.conditions[k]
         IN  IF cond.object_name \notin DOMAIN fs
             THEN [kind |-> "prove", k |-> k, results |-> results,
                   value |-> FALSE]
             ELSE EvaluateFromCondition(rule, k + 1,
                    Append(results,
                           Compare(fs[cond.object_name], cond.operator,
                                   cond.value)),
                    fs)

\* the rules of the knowledge base, as the rule parser builds them
ProverRules ==
    << Rule(<<Condition("a", ">=", "2")>>, <<>>, "b", "1"),
       Rule(<<Condition("a", "<", "5"), Condition("a", "=", "3")>>,
            <<"AND">>, "b", "2"),
       Rule(<<Condition("c", "=", "1"), Condition("a", ">=", "2")>>,
            <<"OR">>, "d", "1"),
       Rule(<<Condition("d", "=", "1")>>, <<>>, "c", "1"),
       Rule(<<Condition("b", "=", "1"), Condition("e", "=", "red")>>,
            <<"AND">>, "d", "2") >>

\* the fact bases an engine is built with
ProverFacts ==
    { <<>>,
      [o \in {"a"} |-> Flt(3)],
      [o \in {"a", "e"} |-> IF o = "a" THEN Flt(3) ELSE Str("red")],
      [o \in {"a", "c"} |-> Str("1")] }

\* the goals asked of prove
Goals == {"b", "c", "d"} \X {"1", "2"}

\* an activation of prove or of _evaluate_conditions
Frame(fn, goal_object, goal_value, rule_index) ==
    [fn |-> fn, goal_object |-> goal_object, goal_value |-> goal_value,
     rule_index |-> rule_index, k |-> 0, results |-> <<>>, at |-> "start"]

InitProver ==
    /\ \E rs \in SubSeqs(ProverRules, MaxProverRules) : rules = rs
    /\ \E fs \in ProverFacts : facts = fs
    /\ proven_goals = {}
    /\ stack = <<>>
    /\ variables = <<>>
    /\ condition_resolution = 0
    /\ variable = NoVariable
    /\ pc = "idle"
    /\ call = NoCall
    /\ idx = 0
    /\ output_mf = <<>>
    /\ x_range = <<>>
    /\ truth_levels = <<>>
    /\ agg_result = Zero
    /\ ret = Zero
    /\ frames = <<>>

\* what prove and _evaluate_conditions leave alone
outside == <<rules, variables, condition_resolution, frames, variable, call,
             idx, output_mf, x_range, truth_levels, agg_result>>

top == stack[Len(stack)]

\* the running activation returns value to its caller
Return(value) ==
    /\ stack' = SubSeq(stack, 1, Len(stack) - 1)
    /\ ret' = value
    /\ pc' = IF Len(stack) = 1 THEN "returned" ELSE pc

\* the running activation, now `caller`, calls `callee`; past the recursion
\* limit the call raises RecursionError, which no frame catches
Invoke(caller, callee) ==
    IF Len(stack) >= RecursionLimit
    THEN /\ pc' = "raised"
         /\ stack' = <<>>
         /\ UNCHANGED ret
    ELSE /\ stack' = Append([stack EXCEPT ![Len(stack)] = caller], callee)
         /\ UNCHANGED <<pc, ret>>

\* the `for rule_index, rule` loop of prove from rule_index on, up to the
\* call of _evaluate_conditions or the final return False
ProveLoop(rule_index) ==
    LET found == ProveScan(rules, top.goal_object, top.goal_value, rule_index)
    IN  IF found = 0
        THEN Return(FALSE)
        ELSE Invoke([top EXCEPT !.rule_index = found, !.at = "called"],
                    Frame("_evaluate_conditions", top.goal_object,
                          top.goal_value, found))

\* engine.prove(goal_object, goal_value), called from outside
CallProve ==
    /\ pc = "idle"
    /\ \E goal \in Goals :
        /\ call' = [fn |-> "prove", goal_object |-> goal[1],
                    goal_value |-> goal[2]]
        /\ stack' = <<Frame("prove", goal[1], goal[2], 0)>>
    /\ pc' = "prove"
    /\ UNCHANGED <<rules, variables, condition_resolution, frames, variable,
                   facts, proven_goals, idx, output_mf, x_range, truth_levels,
                   agg_result, ret>>

\* prove from its entry: the cache, the fact base, then the rules
ProveEnter ==
    /\ pc = "prove"
    /\ top.fn = "prove" /\ top.at = "start"
    /\ LET goal_key == GoalKey(top.goal_object, top.goal_value)
       IN  IF goal_key \in proven_goals
           THEN Return(TRUE) /\ UNCHANGED <<facts, proven_goals>>
           ELSE IF top.goal_object \in DOMAIN facts
                    /\ facts[top.goal_object] = Str(top.goal_value)
           THEN /\ proven_goals' = proven_goals \cup {goal_key}
                /\ Return(TRUE)
                /\ UNCHANGED facts
           ELSE ProveLoop(1) /\ UNCHANGED <<facts, proven_goals>>
    /\ UNCHANGED outside

\* prove after _evaluate_conditions returned: the new fact, or the next rule
ProveResume ==
    /\ pc = "prove"
    /\ top.fn = "prove" /\ top.at = "called"
    /\ IF ret
       THEN /\ facts' = [o \in DOMAIN facts \cup {top.goal_object} |->
                            IF o = top.goal_object THEN Str(top.goal_value)
                            ELSE facts[o]]
            /\ proven_goals' = proven_goals
                                \cup {GoalKey(top.goal_object, top.goal_value)}
            /\ Return(TRUE)
       ELSE ProveLoop(top.rule_index + 1) /\ UNCHANGED <<facts, proven_goals>>
    /\ UNCHANGED outside

\* _evaluate_conditions from condition k with the results so far, up to
\* its return or its next call of prove
EvaluateOn(k, results) ==
    LET rule == rules[top.rule_index]
        run == EvaluateFromCondition(rule, k, results, facts)
    IN  IF run.kind = "return"
        THEN Return(run.value)
        ELSE Invoke([top EXCEPT !.k = run.k, !.results = run.results,
                                !.at = "called"],
                    Frame("prove", rule.conditions[run.k].object_name,
                          rule.conditions[run.k].value, 0))

\* _evaluate_conditions from its entry
EvaluateConditions ==
    /\ pc = "prove"
    /\ top.fn = "_evaluate_conditions" /\ top.at = "start"
    /\ EvaluateOn(1, <<>>)
    /\ UNCHANGED <<facts, proven_goals>>
    /\ UNCHANGED outside

\* _evaluate_conditions after prove returned: the condition is compared
\* with the fact now known, or the rule fails at once
EvaluateConditionsResume ==
    /\ pc = "prove"
    /\ top.fn = "_evaluate_conditions" /\ top.at = "called"
    /\ IF ret
       THEN LET cond == rules[top.rule_index].conditions[top.k]
                holds == /\ cond.object_name \in DOMAIN facts
                         /\ Compare(facts[cond.object_name], cond.operator,
                                    cond.value)
            IN  EvaluateOn(top.k + 1, Append(top.results, holds))
       ELSE Return(FALSE)
    /\ UNCHANGED <<facts, proven_goals>>
    /\ UNCHANGED outside

NextProver ==
    \/ CallProve
    \/ ProveEnter
    \/ ProveResume
    \/ EvaluateConditions
    \/ EvaluateConditionsResume
    \/ Finish

SpecProver == InitProver /\ [][NextProver]_vars

(***************************************************************************)
(* Properties                                                              *)
(***************************************************************************)
Returned(fn) == pc = "returned" /\ call.fn = fn

\* every condition variable of the rule is in inputs and in the variable
\* table, with a term the variable knows
AllKnown(rule, inputs) ==
    \A k \in 1..Len(rule.conditions) :
        /\ rule.conditions[k][1] \in DOMAIN inputs
        /\ rule.conditions[k][1] \in DOMAIN variables
        /\ rule.conditions[k][2]
              \in DOMAIN variables[rule.conditions[k][1]].terms

\* min over the conditions of the term's membership at the crisp input
MinMembershipAtInput(rule, inputs) ==
    SeqMin([k \in 1..Len(rule.conditions) |->
               Membership(variables[rule.conditions[k][1]]
                              .terms[rule.conditions[k][2]],
                          inputs[rule.conditions[k][1]])])

\* C1: for every rule whose condition variables are all in inputs and known
\* with known terms, the truth level get_rule_truth_levels returns is the
\* minimum over the conditions of the term's membership function evaluated
\* at the crisp value inputs[var].
C1_TruthIsMembershipAtInput ==
    Returned("get_rule_truth_levels") =>
        \A k \in 1..Len(truth_levels) :
            AllKnown(truth_levels[k][1], call.inputs) =>
                truth_levels[k][2]
                    = MinMembershipAtInput(truth_levels[k][1], call.inputs)

\* the end-to-end setup of the specification: the single rule
\* IF amount=high THEN power=full, input amount=6, output power
EndToEndSetup ==
    /\ rules = <<FuzzyRule(<< <<"amount", "high">> >>, "power", "full")>>
    /\ variables["amount"].terms["high"] = Tri(3, 6, 6)
    /\ variables["power"].terms["full"] = Tri(0, 50, 100)
    /\ call.inputs = [v \in {"amount"} |-> R(6)]
    /\ call.output_var = "power"

\* C2: in the end-to-end setup the input amount=6 gives the rule truth level
\* 1, inference_truth_level returns the curve of `full` unchanged, and the
\* centroid of that curve is 50.
C2_EndToEndFullCurve ==
    Returned("inference_truth_level") /\ EndToEndSetup =>
        /\ EvaluateRuleConditions(rules[1], call.inputs) = One
        /\ output_mf
             = Arr(TermMembership(variables["power"].terms["full"], x_range))
        /\ DefuzzifyCentroid(output_mf, x_range) = R(50)

\* B'(y) = max over the input grid x of combine(A'(x), R(x, y)) with
\* R(x, y) = implication(mu_A(x), mu_B(y)), for the single condition
\* (var_name, term_name) and the consequent term at the output point y
RelationalOutput(var_name, term_name, value, consequent, y, comp_type, impl_type) ==
    LET var == variables[var_name]
        xs == Linspace(var.min_val, var.max_val, condition_resolution)
        input_mf == BuildInputMembership(var, value, condition_resolution)
        mu_b == Membership(consequent, y)
    IN  SeqMax([i \in 1..condition_resolution |->
            LET rel == IF impl_type = "mamdani"
                       THEN RMin(Membership(var.terms[term_name], xs[i]), mu_b)
                       ELSE RMul(Membership(var.terms[term_name], xs[i]), mu_b)
            IN  IF comp_type = "max_min" THEN RMin(input_mf[i], rel)
                ELSE RMul(input_mf[i], rel)])

\* the engine holds one rule, with a single known condition and a known
\* consequent of the requested output variable
SingleConditionRule ==
    /\ Len(rules) = 1
    /\ Len(rules[1].conditions) = 1
    /\ AllKnown(rules[1], call.inputs)
    /\ rules[1].result_var = call.output_var
    /\ rules[1].result_term \in DOMAIN variables[call.output_var].terms

\* C3: for a single-condition rule the per-rule output of
\* inference_composition is B'(y) = max_x combine(A'(x), R(x, y)), with
\* R(x, y) = implication(mu_A(x), mu_B(y)), for every combination of
\* composition kind and implication.
C3_CompositionIsRelational ==
    Returned("inference_composition") /\ SingleConditionRule =>
        \A i \in 1..Len(x_range) :
            output_mf[i]
              = RelationalOutput(rules[1].conditions[1][1],
                    rules[1].conditions[1][2],
                    call.inputs[rules[1].conditions[1][1]],
                    variables[call.output_var].terms[rules[1].result_term],
                    x_range[i], call.comp_type, call.impl_type)

SingleRuleForOutput ==
    /\ Len(rules) = 1
    /\ rules[1].result_var = call.output_var

\* rule r cut down to its k-th condition
OnlyCondition(r, k) == [r EXCEPT !.conditions = <<r.conditions[k]>>]

\* the curve inference_composition gives for the one rule r under the
\* arguments of the running call
CompositionCurve(r, inputs) ==
    Arr(InferenceComposition(<<r>>, inputs, call.output_var, call.comp_type,
                             call.impl_type, call.agg_type, Resolution)
            .membership)

\* inputs and other agree on the first condition variable of rule r
SameFirstCondition(r, inputs, other) ==
    LET v == r.conditions[1][1]
    IN  \/ v \notin DOMAIN inputs /\ v \notin DOMAIN other
        \/ v \in DOMAIN inputs /\ v \in DOMAIN other /\ inputs[v] = other[v]

\* C4 (as claimed): for a rule with several conditions inference_composition
\* builds the per-rule output from the first condition variable only:
\* changing the value or the presence in inputs of any other condition
\* variable does not change the output curve.
C4_FirstConditionOnly ==
    Returned("inference_composition") /\ SingleRuleForOutput
        /\ Len(rules[1].conditions) > 1 =>
        \A other \in ModelInputs :
            SameFirstCondition(rules[1], call.inputs, other) =>
                CompositionCurve(rules[1], other) = output_mf

\* C4 (amended): for a rule with several conditions inference_composition
\* builds the per-rule output from every condition: the curve is, point by
\* point, the minimum of the curves the rule gives with each one of its
\* conditions alone.
C4_EveryConditionCounts ==
    Returned("inference_composition") /\ SingleRuleForOutput
        /\ Len(rules[1].conditions) > 1 =>
        LET curves == Arr([k \in 1..Len(rules[1].conditions) |->
                              CompositionCurve(OnlyCondition(rules[1], k),
                                               call.inputs)])
        IN  \A i \in 1..Len(output_mf) :
                output_mf[i]
                  = SeqMin([k \in 1..Len(rules[1].conditions) |-> curves[k][i]])

\* a two-condition rule has run whose curve is not the curve of its first
\* condition alone: the second condition lowered it
C4_Witness ==
    /\ Returned("inference_composition") /\ SingleRuleForOutput
    /\ Len(rules[1].conditions) > 1
    /\ AllKnown(rules[1], call.inputs)
    /\ \E i \in 1..Len(output_mf) : output_mf[i] # Zero
    /\ output_mf # CompositionCurve(OnlyCondition(rules[1], 1), call.inputs)

\* the truth levels of the engine's rules under the inputs of the call
Alphas == Arr([k \in 1..Len(rules) |->
                  EvaluateRuleConditions(rules[k], call.inputs)])

\* rule k adds to the curve of the running inference_truth_level call
Contributes(k, alphas) ==
    /\ rules[k].result_var = call.output_var
    /\ alphas[k] # Zero
    /\ rules[k].result_term \in DOMAIN variables[call.output_var].terms

\* implication(alpha, mu_consequent(y)) of the contributing rules from rule
\* k on, in rule order, at the output point y
RECURSIVE ContributionsFrom(_, _, _)
ContributionsFrom(k, alphas, y) ==
    IF k > Len(rules) THEN <<>>
    ELSE IF ~Contributes(k, alphas) THEN ContributionsFrom(k + 1, alphas, y)
    ELSE LET mu == Membership(
                       variables[call.output_var].terms[rules[k].result_term],
                       y)
         IN  <<IF call.impl_type = "mamdani" THEN RMin(alphas[k], mu)
               ELSE RMul(alphas[k], mu)>>
             \o ContributionsFrom(k + 1, alphas, y)

\* C5: inference_truth_level returns, over the output grid, the aggregation
\* (by the chosen operator, in rule order) of implication(alpha, mu(y)) over
\* exactly the rules whose consequent variable is output_var, whose alpha is
\* non-zero and whose consequent term is known; when no rule contributes the
\* curve is zero at every grid point.
C5_TruthLevelAggregates ==
    Returned("inference_truth_level") =>
        LET alphas == Alphas
        IN  \A i \in 1..Len(x_range) :
               LET contributions == ContributionsFrom(1, alphas, x_range[i])
               IN  /\ output_mf[i] = Aggregate(contributions, call.agg_type)
                   /\ contributions = <<>> => output_mf[i] = Zero

\* a call has returned a curve that one rule added to and a rule of another
\* output variable, though true of the inputs, did not
C5_Witness ==
    /\ Returned("inference_truth_level")
    /\ Len(rules) = 2
    /\ Contributes(1, Alphas)
    /\ rules[2].result_var # call.output_var
    /\ Alphas[2] # Zero
    /\ \E i \in 1..Len(output_mf) : output_mf[i] # Zero

\* condition k of the rule names a variable missing from inputs or from the
\* variable table, or a term its variable does not know
BadCondition(rule, inputs, k) ==
    \/ rule.conditions[k][1] \notin DOMAIN inputs
    \/ rule.conditions[k][1] \notin DOMAIN variables
    \/ rule.conditions[k][2]
          \notin DOMAIN variables[rule.conditions[k][1]].terms

\* C6: a rule's truth level is 0, and no exception is raised, whenever any
\* of its condition variables is absent from inputs or unknown to the
\* variable table or any condition term is unknown to its variable, whatever
\* the other conditions are and wherever the condition stands in the rule.
C6_BadConditionGivesZero ==
    call.fn = "get_rule_truth_levels" =>
        /\ pc = "returned"
        /\ \A n \in 1..Len(truth_levels) :
              (\E k \in 1..Len(truth_levels[n][1].conditions) :
                   BadCondition(truth_levels[n][1], call.inputs, k))
                 => truth_levels[n][2] = Zero

\* a rule whose first condition names an unknown term and whose other
\* condition is fully true has been given the level 0
C6_Witness ==
    /\ Returned("get_rule_truth_levels")
    /\ \E n \in 1..Len(truth_levels) :
          LET rule == truth_levels[n][1]
          IN  /\ Len(rule.conditions) = 2
              /\ rule.conditions[1][1] \in DOMAIN variables
              /\ rule.conditions[1][2]
                    \notin DOMAIN variables[rule.conditions[1][1]].terms
              /\ EvaluateRuleConditions(OnlyCondition(rule, 2), call.inputs)
                    = One
              /\ truth_levels[n][2] = Zero

\* the rule names a condition variable the table does not hold, a condition
\* term its variable does not know, or a consequent term its output
\* variable does not know
Malformed(r) ==
    \/ \E k \in 1..Len(r.conditions) :
          \/ r.conditions[k][1] \notin DOMAIN variables
          \/ r.conditions[k][2]
                \notin DOMAIN variables[r.conditions[k][1]].terms
    \/ /\ r.result_var \in DOMAIN variables
       /\ r.result_term \notin DOMAIN variables[r.result_var].terms

\* the rule list without its k-th rule
WithoutRule(rs, k) == SubSeq(rs, 1, k - 1) \o SubSeq(rs, k + 1, Len(rs))

\* the curve of the running call's method on the rule list rs
CurveOn(rs) ==
    IF call.fn = "inference_truth_level"
    THEN Arr(InferenceTruthLevel(rs, call.inputs, call.output_var,
                 call.impl_type, call.agg_type, Resolution).membership)
    ELSE Arr(InferenceComposition(rs, call.inputs, call.output_var,
                 call.comp_type, call.impl_type, call.agg_type, Resolution)
                 .membership)

InferenceCall ==
    call.fn \in {"inference_truth_level", "inference_composition"}

\* C7: a rule list holding a rule that references an unknown condition
\* variable, an unknown condition term or an unknown consequent term gives
\* inference_truth_level and inference_composition the curve the list
\* without that rule gives, and the call completes without error.
C7_MalformedRuleChangesNothing ==
    InferenceCall /\ call.output_var \in DOMAIN variables =>
        /\ pc # "raised"
        /\ pc = "returned" =>
              \A k \in 1..Len(rules) :
                  Malformed(rules[k]) =>
                      output_mf = CurveOn(WithoutRule(rules, k))

\* an inference has returned a non-zero curve from a sound rule followed by
\* a rule on an unknown variable that is in inputs and whose other
\* condition is fully true
C7_Witness ==
    /\ InferenceCall /\ pc = "returned"
    /\ Len(rules) = 2
    /\ ~Malformed(rules[1])
    /\ \E i \in 1..Len(output_mf) : output_mf[i] # Zero
    /\ rules[2].result_var = call.output_var
    /\ Len(rules[2].conditions) = 2
    /\ rules[2].conditions[2][1] \notin DOMAIN variables
    /\ rules[2].conditions[2][1] \in DOMAIN call.inputs
    /\ EvaluateRuleConditions(OnlyCondition(rules[2], 1), call.inputs) = One

\* C8: inference_truth_level and inference_composition called with an
\* output_var that is no key of the variable table raise ValueError and
\* return no curve, whatever the rules and inputs are.
C8_UnknownOutputRaises ==
    InferenceCall /\ call.output_var \notin DOMAIN variables =>
        /\ pc = "raised"
        /\ output_mf = <<>>
        /\ x_range = <<>>

\* inference_composition has raised on an engine that holds rules
C8_Witness ==
    /\ pc = "raised"
    /\ call.fn = "inference_composition"
    /\ call.output_var \notin DOMAIN variables
    /\ rules # <<>>

\* C9: for a single rule with truth level 1, inference_composition with
\* MAX_MIN and with MAX_PROD, under either implication, returns the curve
\* inference_truth_level returns for the same rule, inputs, aggregation and
\* resolution.
C9_CompositionMeetsTruthLevelAtOne ==
    Returned("inference_composition") /\ Len(rules) = 1
        /\ EvaluateRuleConditions(rules[1], call.inputs) = One =>
        \A impl_type \in ImplicationType :
            output_mf
              = Arr(InferenceTruthLevel(rules, call.inputs, call.output_var,
                        impl_type, call.agg_type, Resolution).membership)

\* MAX_PROD composition over a Mamdani relation has returned, for one rule
\* of truth level 1, a curve with a point strictly between 0 and 1
C9_Witness ==
    /\ Returned("inference_composition") /\ Len(rules) = 1
    /\ call.comp_type = "max_prod" /\ call.impl_type = "mamdani"
    /\ EvaluateRuleConditions(rules[1], call.inputs) = One
    /\ \E i \in 1..Len(output_mf) :
          RLt(Zero, output_mf[i]) /\ RLt(output_mf[i], One)

\* C10: SUM and PROBOR never give a value above 1: _aggregate returns at
\* most 1 for every non-empty value list of any magnitude, and after any
\* number of accumulated rule outputs every point of the curve of
\* inference_truth_level and inference_composition is at most 1.
C10_SumAndProborCapped ==
    /\ Returned("_aggregate") /\ call.agg_type \in {"sum", "probor"}
          /\ call.values # <<>> => RLe(agg_result, One)
    /\ InferenceCall /\ call.agg_type \in {"sum", "probor"} =>
          \A i \in 1..Len(output_mf) : RLe(output_mf[i], One)

\* _aggregate has capped a SUM whose values add up to more than 1
C10_Witness ==
    /\ Returned("_aggregate")
    /\ call.agg_type = "sum"
    /\ RLt(One, SeqSum(call.values))
    /\ agg_result = One

\* the value list with its elements in the order perm
Permuted(values, perm) == Arr([i \in 1..Len(values) |-> values[perm[i]]])

\* C11: PROBOR aggregation is order-independent: for every list of values
\* in [0, 1], _aggregate(values, PROBOR) returns the same result for every
\* permutation of the list.
C11_ProborOrderIndependent ==
    Returned("_aggregate") /\ call.agg_type = "probor"
        /\ (\A i \in 1..Len(call.values) :
               RLe(Zero, call.values[i]) /\ RLe(call.values[i], One)) =>
        \A perm \in Permutations(1..Len(call.values)) :
            Aggregate(Permuted(call.values, perm), "probor") = agg_result

\* PROBOR has folded three values of [0, 1], not all equal, into a result
\* strictly between 0 and 1
C11_Witness ==
    /\ Returned("_aggregate") /\ call.agg_type = "probor"
    /\ Len(call.values) = 3
    /\ \A i \in 1..3 : RLe(Zero, call.values[i]) /\ RLe(call.values[i], One)
    /\ call.values[1] # call.values[2]
    /\ RLt(Zero, agg_result) /\ RLt(agg_result, One)

\* x lies in the closed interval [lo, hi]
InClosed(x, lo, hi) == RLe(lo, x) /\ RLe(x, hi)

\* x lies in the open interval (lo, hi)
InOpen(x, lo, hi) == RLt(lo, x) /\ RLt(x, hi)

\* C12 (as claimed): TrapezoidalMF(a,b,c,d) evaluates to exactly 1 at every
\* x in the closed interval [b,c], for all a<=b<=c<=d (a==b and c==d
\* included), and to 0 at every x outside (a,d).
C12_TrapezoidPlateauClosed ==
    Returned("TrapezoidalMF") =>
        /\ InClosed(call.x, call.mf.b, call.mf.c) => ret = One
        /\ ~InOpen(call.x, call.mf.a, call.mf.d) => ret = Zero

\* C12 (amended): TrapezoidalMF(a,b,c,d) evaluates to exactly 1 at every x
\* of [b,c] that lies strictly inside (a,d), and to 0 at every x outside
\* (a,d), for all a<=b<=c<=d: with a==b it is 0 at x=a, with c==d it is 0
\* at x=d.
C12_TrapezoidPlateauInside ==
    Returned("TrapezoidalMF") =>
        /\ InClosed(call.x, call.mf.b, call.mf.c)
              /\ InOpen(call.x, call.mf.a, call.mf.d) => ret = One
        /\ ~InOpen(call.x, call.mf.a, call.mf.d) => ret = Zero

\* a left shoulder (a == b < c) has been evaluated at x = a = b, the end of
\* its plateau, and returned 0
C12_Witness ==
    /\ Returned("TrapezoidalMF")
    /\ call.mf.a = call.mf.b /\ RLt(call.mf.b, call.mf.c)
    /\ call.x = call.mf.b
    /\ ret = Zero

\* C13: for all a<b<c TriangularMF(a,b,c) is 1 at x=b and 0 at x=a and at
\* x=c, rises as (x-a)/(b-a) on (a,b] and falls as (c-x)/(c-b) on [b,c);
\* Triangular(0,5,10) at 2.5 gives 0.5.
C13_TriangleShape ==
    Returned("TriangularMF")
        /\ RLt(call.mf.a, call.mf.b) /\ RLt(call.mf.b, call.mf.c) =>
        /\ call.x = call.mf.b => ret = One
        /\ call.x = call.mf.a \/ call.x = call.mf.c => ret = Zero
        /\ RLt(call.mf.a, call.x) /\ RLe(call.x, call.mf.b) =>
              ret = RDiv(RSub(call.x, call.mf.a), RSub(call.mf.b, call.mf.a))
        /\ RLe(call.mf.b, call.x) /\ RLt(call.x, call.mf.c) =>
              ret = RDiv(RSub(call.mf.c, call.x), RSub(call.mf.c, call.mf.b))
        /\ call.mf = Tri(0, 5, 10) /\ call.x = <<5, 2>> => ret = <<1, 2>>

\* a proper triangle has been evaluated at its peak and returned 1
C13_Witness ==
    /\ Returned("TriangularMF")
    /\ RLt(call.mf.a, call.mf.b) /\ RLt(call.mf.b, call.mf.c)
    /\ call.x = call.mf.b
    /\ ret = One

\* C14: for every triangular shape with a<=b<=c and every trapezoidal shape
\* with a<=b<=c<=d, degenerate ones included, and for every x, evaluation
\* never divides by zero (the result is a number) and returns a value in
\* [0,1].
C14_MembershipInUnitInterval ==
    Returned("TriangularMF") \/ Returned("TrapezoidalMF") =>
        /\ ret[2] > 0
        /\ RLe(Zero, ret) /\ RLe(ret, One)

\* a triangle with a == b < c has been evaluated strictly inside (b, c)
\* and returned a value strictly between 0 and 1
C14_Witness ==
    /\ Returned("TriangularMF")
    /\ call.mf.a = call.mf.b /\ RLt(call.mf.b, call.mf.c)
    /\ InOpen(call.x, call.mf.b, call.mf.c)
    /\ RLt(Zero, ret) /\ RLt(ret, One)

Defuzzifiers == {"defuzzify_centroid", "defuzzify_bisector", "defuzzify_mom"}

\* the curve handed to the running defuzzifier is zero at every grid point
AllZeroCurve ==
    \A i \in 1..Len(call.membership) : call.membership[i] = Zero

\* C15: on a membership curve that is zero at every grid point
\* defuzzify_centroid, defuzzify_bisector and defuzzify_mom each return the
\* arithmetic mean of x_range, which is the midpoint of the uniform grid,
\* with no division by zero.
C15_ZeroCurveGivesMean ==
    pc = "returned" /\ call.fn \in Defuzzifiers /\ AllZeroCurve =>
        /\ ret[2] > 0
        /\ ret = RDiv(SeqSum(call.x_range), R(Len(call.x_range)))
        /\ ret = RDiv(RAdd(call.x_range[1],
                           call.x_range[Len(call.x_range)]), R(2))

\* defuzzify_bisector has returned the mean of a grid of three or more
\* points for an all-zero curve: a value away from the first grid point
C15_Witness ==
    /\ Returned("defuzzify_bisector")
    /\ Len(call.x_range) >= 3
    /\ AllZeroCurve
    /\ ret # call.x_range[1]

\* the sum of the first i values of the curve
SumUpTo(membership, i) == SeqSumIn(membership, 1, i)

\* C17: defuzzify_bisector on a curve with non-negative values and positive
\* total returns x_range[i] for the smallest index i at which the
\* cumulative sum of the membership values is at least half of the total;
\* the returned value is an element of x_range.
C17_BisectorSmallestIndex ==
    Returned("defuzzify_bisector")
        /\ (\A i \in 1..Len(call.membership) : RLe(Zero, call.membership[i]))
        /\ RLt(Zero, SeqSum(call.membership)) =>
        LET half == RDiv(SeqSum(call.membership), R(2))
        IN  \E i \in 1..Len(call.x_range) :
               /\ ret = call.x_range[i]
               /\ RLe(half, SumUpTo(call.membership, i))
               /\ \A j \in 1..(i - 1) :
                      RLt(SumUpTo(call.membership, j), half)

\* the cumulative sum has met half of the total exactly, before the last
\* grid point, and the grid point where it did was returned
C17_Witness ==
    /\ Returned("defuzzify_bisector")
    /\ Len(call.x_range) >= 3
    /\ \E i \in 1..(Len(call.x_range) - 1) :
          /\ RLt(Zero, SeqSum(call.membership))
          /\ RAdd(SumUpTo(call.membership, i), SumUpTo(call.membership, i))
                = SeqSum(call.membership)
          /\ call.membership[i] # Zero
          /\ ret = call.x_range[i]

\* the indices at which the curve attains its maximum
MaxIndices(membership) ==
    {i \in 1..Len(membership) : membership[i] = SeqMax(membership)}

\* C18: defuzzify_mom on a curve whose maximum is positive returns the mean
\* of the x values at all indices attaining the maximum; when the maximum
\* is attained at exactly one index it returns exactly the x at that index.
C18_MeanOfMaximum ==
    Returned("defuzzify_mom") /\ RLt(Zero, SeqMax(call.membership)) =>
        LET at == MaxIndices(call.membership)
        IN  /\ ret = RDiv(SeqSum([i \in 1..Len(call.x_range) |->
                              IF i \in at THEN call.x_range[i] ELSE Zero]),
                          R(Cardinality(at)))
            /\ \A i \in at : at = {i} => ret = call.x_range[i]

\* the maximum was attained at the first and the last of three or more
\* grid points only, and the mean of the two x values was returned
C18_Witness ==
    /\ Returned("defuzzify_mom")
    /\ Len(call.x_range) >= 3
    /\ RLt(Zero, SeqMax(call.membership))
    /\ MaxIndices(call.membership) = {1, Len(call.x_range)}
    /\ ret = RDiv(RAdd(call.x_range[1], call.x_range[Len(call.x_range)]),
                  R(2))

\* the term is a triangle with equal sides whose peak is the midpoint of
\* the variable's domain
SymmetricCentred(term, var) ==
    /\ term.type = "tri"
    /\ RSub(term.b, term.a) = RSub(term.c, term.b)
    /\ RAdd(term.b, term.b) = RAdd(var.min_val, var.max_val)

\* the rules that add to the curve of the running inference_truth_level
Contributing == {k \in 1..Len(rules) : Contributes(k, Alphas)}

\* exactly one rule contributes and its consequent is symmetric and centred
OneSymmetricContribution ==
    /\ call.fn = "inference_truth_level"
    /\ Cardinality(Contributing) = 1
    /\ \A k \in Contributing :
          SymmetricCentred(
              variables[call.output_var].terms[rules[k].result_term],
              variables[call.output_var])

\* the centroid of the curve inference_truth_level gives under impl_type
CentroidUnder(impl_type) ==
    DefuzzifyCentroid(
        Arr(InferenceTruthLevel(rules, call.inputs, call.output_var,
                impl_type, call.agg_type, Resolution).membership),
        x_range)

\* C16: for a symmetric triangular consequent centred on the midpoint of
\* the output domain and a single contributing rule with any truth level in
\* (0,1], the centroid of the Mamdani-clipped curve and the centroid of the
\* Larsen-scaled curve both equal the domain midpoint (50 for
\* full=Triangular(0,50,100)), so both implications give the same crisp
\* output.
C16_SymmetricCentroidIsMidpoint ==
    pc = "defuzzified" /\ OneSymmetricContribution =>
        LET midpoint == RDiv(RAdd(variables[call.output_var].min_val,
                                  variables[call.output_var].max_val), R(2))
        IN  /\ ret = midpoint
            /\ CentroidUnder("mamdani") = midpoint
            /\ CentroidUnder("larsen") = midpoint

\* the centroid 50 was returned for `full` clipped by Mamdani at the truth
\* level 1/2, a curve that differs from the one Larsen gives
C16_Witness ==
    /\ pc = "defuzzified" /\ OneSymmetricContribution
    /\ call.impl_type = "mamdani"
    /\ \A k \in Contributing : Alphas[k] = <<1, 2>>
    /\ ret = R(50)
    /\ output_mf # Arr(InferenceTruthLevel(rules, call.inputs,
                           call.output_var, "larsen", call.agg_type,
                           Resolution).membership)

\* the rule is kept by the output_var filter of get_rule_truth_levels
KeptBy(output_var, rule) == output_var = "" \/ rule.result_var = output_var

\* the declared rules the filter keeps, in declaration order
RECURSIVE KeptRules(_, _)
KeptRules(rs, output_var) ==
    IF rs = <<>> THEN <<>>
    ELSE (IF KeptBy(output_var, Head(rs)) THEN <<Head(rs)>> ELSE <<>>)
         \o KeptRules(Tail(rs), output_var)

\* C19: get_rule_truth_levels returns the (rule, alpha) pairs in the order
\* the rules are declared, one pair per rule, rules whose alpha is 0
\* included; with output_var given the result holds exactly the rules whose
\* consequent variable is output_var, in the same relative order.
C19_TruthLevelsInRuleOrder ==
    Returned("get_rule_truth_levels") =>
        /\ Arr([k \in 1..Len(truth_levels) |-> truth_levels[k][1]])
              = KeptRules(rules, call.output_var)
        /\ \A k \in 1..Len(truth_levels) :
              truth_levels[k][2]
                = EvaluateRuleConditions(truth_levels[k][1], call.inputs)
        /\ call.output_var = "" => Len(truth_levels) = Len(rules)

\* with output_var given, two different rules were returned in declaration
\* order, the first with alpha 0 and the second with a positive alpha
C19_Witness ==
    /\ Returned("get_rule_truth_levels")
    /\ call.output_var = "power"
    /\ Len(rules) = 2 /\ Len(truth_levels) = 2
    /\ truth_levels[1][1] = rules[1] /\ truth_levels[2][1] = rules[2]
    /\ truth_levels[1][2] = Zero
    /\ RLt(Zero, truth_levels[2][2])

\* the curve the inference call of frame f returns when it runs alone
CurveAlone(f) ==
    IF f.call.fn = "inference_truth_level"
    THEN Arr(InferenceTruthLevel(rules, f.call.inputs, f.call.output_var,
                 f.call.impl_type, f.call.agg_type, Resolution).membership)
    ELSE Arr(InferenceComposition(rules, f.call.inputs, f.call.output_var,
                 f.call.comp_type, f.call.impl_type, f.call.agg_type,
                 Resolution).membership)

\* frame f holds what its call, and the defuzzifier after it, return when
\* they run alone on the engine
ResultAsAlone(f) ==
    /\ f.pc = "returned" /\ f.call.fn = "get_rule_truth_levels" =>
          f.truth_levels
            = GetRuleTruthLevels(rules, f.call.inputs, f.call.output_var)
    /\ f.pc = "returned" /\ f.call.fn # "get_rule_truth_levels" =>
          f.output_mf = CurveAlone(f)
    /\ f.pc = "defuzzify_centroid" =>
          f.ret = DefuzzifyCentroid(CurveAlone(f), f.x_range)
    /\ f.pc = "defuzzify_bisector" =>
          f.ret = DefuzzifyBisector(CurveAlone(f), f.x_range)
    /\ f.pc = "defuzzify_mom" =>
          f.ret = DefuzzifyMom(CurveAlone(f), f.x_range)

\* a step writes neither the engine nor the arguments of a running call
EngineAndInputsKept ==
    /\ engine' = engine
    /\ \A t \in Threads :
          frames[t].pc # "idle" /\ frames'[t].pc # "idle" =>
              frames'[t].call = frames[t].call

\* C20: no engine call (get_rule_truth_levels, inference_truth_level,
\* inference_composition, the three defuzzifiers) writes to the engine's
\* rules, variables or condition_resolution or to the caller's inputs map,
\* so in every interleaving of calls made with different input maps on one
\* engine each call returns the result it returns when run alone.
C20_CallsDoNotInterfere ==
    /\ [][EngineAndInputsKept]_vars
    /\ [](\A t \in Threads : ResultAsAlone(frames[t]))

\* two threads are inside the rule loops of two inference calls made with
\* different input maps, each with one pass done that raised its curve
C20_Witness ==
    /\ frames # <<>>
    /\ frames[1].pc = "inference_truth_level" /\ frames[1].idx = 2
    /\ frames[2].pc = "inference_composition" /\ frames[2].idx = 2
    /\ frames[1].call.inputs # frames[2].call.inputs
    /\ \E i \in 1..Len(frames[1].output_mf) : frames[1].output_mf[i] # Zero
    /\ \E i \in 1..Len(frames[2].output_mf) : frames[2].output_mf[i] # Zero
    /\ Len(rules) >= 2

(***************************************************************************)
(* The JSON parser                                                         *)
(***************************************************************************)
\* _parse_variable is running or has ended, in a return or a raise
Parsing == call.fn = "_parse_variable"

\* the variable of the running _parse_variable was given a range
RangeDeclared == Parsing /\ call.var_json.range[1] # None

\* C21: a FuzzyVariable built with a declared range [min, max] keeps exactly
\* that min_val and max_val after any sequence of add_term calls, also when
\* the parameters of a term lie outside [min, max]
C21_DeclaredRangeKept ==
    RangeDeclared =>
        /\ variable.min_val = call.var_json.range[1]
        /\ variable.max_val = call.var_json.range[2]

\* the type and parameter count _create_mf is said to accept, the type
\* name read without regard to case
Acceptable(term_data) ==
    \/ Lower(term_data.type) = <<"t", "r", "i">> /\ Len(term_data.params) = 3
    \/ Lower(term_data.type) = <<"t", "r", "a", "p">>
        /\ Len(term_data.params) = 4

\* a TriangularMF with three parameters or a TrapezoidalMF with four
WellShaped(mf) ==
    \/ mf.type = "tri" /\ DOMAIN mf = {"type", "a", "b", "c"}
    \/ mf.type = "trap" /\ DOMAIN mf = {"type", "a", "b", "c", "d"}

GridPoint(var, i, n) ==
    IF n = 1 THEN var.min_val
    ELSE RAdd(var.min_val,
              RDiv(RMul(R(i - 1), RSub(var.max_val, var.min_val)), R(n - 1)))

\* max(1 - |x - v| / half_width, 0)
Spike(x, v, half_width) ==
    RMax(RSub(One, RDiv(RAbs(RSub(x, v)), half_width)), Zero)

\* the returned pair is the grid and the spike of the given half width
SingletonWith(var, half_width) ==
    /\ Len(x_range) = condition_resolution
    /\ Len(ret) = condition_resolution
    /\ \A i \in 1..condition_resolution :
        /\ x_range[i] = GridPoint(var, i, condition_resolution)
        /\ ret[i] = Spike(x_range[i], call.value, half_width)

\* C23: the fuzzified singleton _build_input_membership returns is, at
\* every point x of the condition_resolution-point grid over [V.min, V.max],
\* max(1 - |x - v| / half_width, 0) with half_width = span /
\* max(condition_resolution / 2, 1), where condition_resolution / 2 is the
\* quotient of the two integers and span is V.max - V.min (1 for a range
\* that is a single point)
C23_SingletonHalfWidth ==
    Returned("_build_input_membership") =>
        LET var == variables[call.var]
            span == IF var.min_val = var.max_val THEN One
                    ELSE RSub(var.max_val, var.min_val)
        IN  SingletonWith(var,
                RDiv(span, R(IMax(condition_resolution \div 2, 1))))

\* a singleton on an odd grid, whose value lies strictly inside the spike
C23_Witness ==
    /\ Returned("_build_input_membership")
    /\ condition_resolution % 2 = 1
    /\ \E i \in 1..Len(ret) : RLt(Zero, ret[i]) /\ RLt(ret[i], One)

\* C24: after construction condition_resolution is max(51, requested): at
\* least 51 for every requested value, zero and negative ones included, and
\* the requested value when that is 51 or more
C24_ResolutionClamped ==
    /\ condition_resolution >= 51
    /\ Returned("__init__") =>
        /\ call.condition_resolution >= 51 =>
                condition_resolution = call.condition_resolution
        /\ call.condition_resolution < 51 => condition_resolution = 51

\* an engine constructed with a negative condition_resolution
C24_Witness ==
    /\ Returned("__init__")
    /\ call.condition_resolution < 0
    /\ condition_resolution = 51

(***************************************************************************)
(* Composition and implication type; the order of the rules                *)
(***************************************************************************)
\* the only rule of the engine is for the output variable of the call,
\* names one of its terms and has a truth level other than 0
OneRuleContributes ==
    /\ SingleRuleForOutput
    /\ rules[1].result_term \in DOMAIN variables[call.output_var].terms
    /\ EvaluateRuleConditions(rules[1], call.inputs) # Zero

\* the curve inference_composition gives under implication type impl_type,
\* the other arguments being those of the running call
CompositionCurveUnder(impl_type) ==
    Arr(InferenceComposition(rules, call.inputs, call.output_var,
                             call.comp_type, impl_type, call.agg_type,
                             Resolution).membership)

RuleOrders(n) ==
    {perm \in [1..n -> 1..n] : \A i, j \in 1..n : perm[i] = perm[j] => i = j}

\* the curve the running inference method gives for the rule list rs
CurveOfRules(rs) ==
    IF call.fn = "inference_truth_level"
    THEN Arr(InferenceTruthLevel(rs, call.inputs, call.output_var,
                                 call.impl_type, call.agg_type,
                                 Resolution).membership)
    ELSE Arr(InferenceComposition(rs, call.inputs, call.output_var,
                                  call.comp_type, call.impl_type,
                                  call.agg_type, Resolution).membership)

\* C26: the curve of inference_truth_level and of inference_composition
\* does not depend on the order of the rules: under MAX, SUM and PROBOR every
\* permutation of the rule list gives the same curve, and every point of
\* the curve is in [0, 1] after each accumulated rule
C26_RuleOrderIrrelevant ==
    /\ Returned("inference_truth_level") \/ Returned("inference_composition") =>
            \A perm \in RuleOrders(Len(rules)) :
                CurveOfRules(Permuted(rules, perm)) = output_mf
    /\ InferenceCall =>
            \A i \in 1..Len(output_mf) :
                RLe(Zero, output_mf[i]) /\ RLe(output_mf[i], One)

\* an inference under SUM has returned for two rules of different result
\* terms that both raised the curve
C26_Witness ==
    /\ Returned("inference_truth_level")
    /\ call.agg_type = "sum"
    /\ Len(rules) = 2
    /\ rules[1].result_term # rules[2].result_term
    /\ CurveOfRules(<<rules[1]>>) # output_mf
    /\ CurveOfRules(<<rules[2]>>) # output_mf
    /\ CurveOfRules(<<rules[2], rules[1]>>) = output_mf

(***************************************************************************)
(* The backward-chaining engine                                            *)
(***************************************************************************)
\* C27: prove terminates and returns a boolean for every finite rule list
\* and fact base, also when the rules depend on each other in a cycle: no
\* call ends in RecursionError and what a call returns is True or False
C27_ProveReturnsBoolean ==
    call.fn = "prove" =>
        /\ pc # "raised"
        /\ pc = "returned" => ret \in BOOLEAN

\* _evaluate_conditions of the rule the running prove is at has returned
EvaluationReturned ==
    /\ pc = "prove"
    /\ top.fn = "prove"
    /\ top.at = "called"

\* the condition holds of the fact base; an unknown fact counts as false
Holds(cond) ==
    /\ cond.object_name \in DOMAIN facts
    /\ Compare(facts[cond.object_name], cond.operator, cond.value)

\* the fact of the condition is known, or no rule could prove it
Settled(cond) ==
    \/ cond.object_name \in DOMAIN facts
    \/ \A i \in 1..Len(rules) : rules[i].result_object # cond.object_name

\* C28: _evaluate_conditions returns the left-to-right fold of the truth
\* values of all the rule's conditions under its logical operators, a
\* condition whose fact is unknown and cannot be proven counting as false;
\* a rule 'c1 OR c2' is satisfied whenever one of c1, c2 holds
C28_LeftToRightFold ==
    EvaluationReturned =>
        LET rule == rules[top.rule_index]
            truths == [k \in 1..Len(rule.conditions) |->
                          Holds(rule.conditions[k])]
        IN  (\A k \in 1..Len(rule.conditions) : Settled(rule.conditions[k]))
                => ret = FoldResults(truths, rule.logical_operators)

\* the goals that can enter the cache: those asked from outside and those
\* the conditions of the rules give rise to
CachedGoals ==
    Goals \cup UNION { {<<ProverRules[i].conditions[k].object_name,
                            ProverRules[i].conditions[k].value>> :
                            k \in 1..Len(ProverRules[i].conditions)} :
                        i \in 1..Len(ProverRules) }

\* C29: after any sequence of prove calls every goal 'object=value' in
\* proven_goals agrees with the fact base: facts[object] == value
C29_CacheAgreesWithFacts ==
    call.fn = "prove" /\ pc = "returned" =>
        \A goal_key \in proven_goals :
            \E goal \in CachedGoals :
                /\ goal_key = GoalKey(goal[1], goal[2])
                /\ goal[1] \in DOMAIN facts
                /\ facts[goal[1]] = Str(goal[2])

(***************************************************************************)
(* The rule parser                                                         *)
(***************************************************************************)
\* C30: parse_rule on a well-formed text 'ESLI c1 [I|ILI c2 ...] TO obj=val'
\* returns a Rule whose conditions are the listed (object, operator, value)
\* triples in order, whose logical operators are the listed connectives in
\* order, one fewer than the conditions, and whose result_object and
\* result_value are the non-empty obj and val; a text without the leading
\* keyword or without ' TO ' is rejected with ValueError
C30_WellFormedRuleParsed ==
    call.fn = "parse_rule" =>
        /\ call.form = "plain" =>
            /\ pc # "raised"
            /\ pc = "returned" =>
                /\ ret.conditions = call.typed.conditions
                /\ ret.logical_operators = call.typed.logical_operators
                /\ Len(ret.logical_operators) = Len(ret.conditions) - 1
                /\ ret.result_object = call.typed.result_object
                /\ ret.result_value = call.typed.result_value
                /\ ret.result_object # <<>> /\ ret.result_value # <<>>
        /\ call.form \in {"no_if", "no_then"} => pc # "returned"

====
